---- MODULE Spec2Model ----
(***************************************************************************)
(* A model of the Lambda handlers of the investment agent system:          *)
(*   lambda/invoke_agent/app.py                 (Request Gateway)          *)
(*   lambda/agent_router/detailed_investment_router.py  (router adapter)   *)
(*   lambda/portfolio_service/balance_fetcher.py        (portfolio adapter)*)
(*   lambda/subscription_service/subscription_handler.py (subscription)    *)
(*                                                                         *)
(* Every handler is a stateless function of its event and of the answers   *)
(* of the external services it calls.  One action per handler draws an     *)
(* event and the external answers from small sets, runs the handler as the *)
(* code does and records the invocation in `last`.  Python values are      *)
(* tagged records [t, s]; strings built by the code (bodies, messages) are *)
(* sequences of text pieces, so that "exactly this text" can be stated.    *)
(***************************************************************************)
EXTENDS Integers, Sequences, FiniteSets, TLC

VARIABLES
    alias,      \* ORCHESTRATOR_AGENT_ALIAS_ID, read once from the environment
    uuidCount,  \* number of uuid.uuid4() calls made so far
    issued,     \* session ids the Gateway generated and returned with HTTP 200
    last,       \* the last completed handler invocation: input, calls, result
    running,    \* the local variables of the invocations that run concurrently
    preparer    \* the custom-resource invocation of the agent preparer in progress

vars == <<alias, uuidCount, issued, last, running, preparer>>

-----------------------------------------------------------------------------
(* Bounds of the model.                                                    *)

MaxChunks == 2      \* chunks in one specialist answer stream
MaxUuid   == 2      \* uuid.uuid4() calls in one behaviour
MaxParams == 2      \* entries of a parameters list
MaxPositions == 4   \* positions of a portfolio snapshot
MaxAgents == 2      \* agents listed in one custom-resource request
MaxAliases == 1     \* aliases listed in one custom-resource request
MaxWaitPolls == 2   \* 10-second sleeps that fit in max_wait_time

-----------------------------------------------------------------------------
(* Python / JSON values.                                                   *)

Absent   == [t |-> "absent", s |-> ""]     \* key not present in a mapping
None     == [t |-> "none", s |-> ""]
PyStr(x) == [t |-> "str", s |-> x]
PyInt(x) == [t |-> "int", s |-> x]
PyNum(n) == [t |-> "num", n |-> n]         \* a JSON number

\* Python truth value of a scalar (`not prompt`, `if not query`).
Truthy(v) ==
    CASE v.t = "str" -> v.s # ""
      [] v.t = "int" -> v.s # "0"
      [] OTHER       -> FALSE

\* dict.get(key, default) on a mapping modelled as a record of all its
\* possible keys, an absent key holding Absent.
Get(d, k, default) == IF d[k].t = "absent" THEN default ELSE d[k]

\* The result of evaluating a block that may raise.
Returned(v)  == [exc |-> "", msg |-> "", val |-> v]
Raised(e, m) == [exc |-> e, msg |-> m]

\* str(uuid.uuid4()): a fresh, non-empty identifier on every call.
uuid4(n) == PyStr("uuid4-" \o ToString(n))

-----------------------------------------------------------------------------
(* Bytes and text.  A byte is "h" (an ASCII byte), "C3" (the lead byte of  *)
(* a two-byte UTF-8 sequence) or "A9" (a continuation byte); the character *)
(* "e'" is the two-byte sequence C3 A9.                                    *)

IsAscii(b) == b = "h"

\* bytes.decode(): the text of a byte string, or UnicodeDecodeError.
RECURSIVE Decode(_)
Decode(bs) ==
    IF bs = <<>> THEN Returned(<<>>)
    ELSE IF IsAscii(Head(bs)) THEN
        LET rest == Decode(Tail(bs)) IN
        IF rest.exc # "" THEN rest ELSE Returned(<<Head(bs)>> \o rest.val)
    ELSE IF Head(bs) = "C3" /\ Len(bs) >= 2 /\ bs[2] = "A9" THEN
        LET rest == Decode(SubSeq(bs, 3, Len(bs))) IN
        IF rest.exc # "" THEN rest ELSE Returned(<<"e'">> \o rest.val)
    ELSE Raised("UnicodeDecodeError", "'utf-8' codec can't decode byte")

\* All bytes of a chunk sequence, in delivery order.
RECURSIVE Flatten(_)
Flatten(chunks) ==
    IF chunks = <<>> THEN <<>> ELSE Head(chunks) \o Flatten(Tail(chunks))

-----------------------------------------------------------------------------
(* JSON text.  A text is invalid, or the encoding of one JSON value.       *)

\* json.dumps(value)
JsonDumps(v) == [t |-> "text", json |-> v]

InvalidJson == [t |-> "text", json |-> [t |-> "invalid"]]

\* json.loads(raw): TypeError unless raw is text, JSONDecodeError when the
\* text is not JSON, else the value the text encodes.
JsonLoads(raw) ==
    IF raw.t # "text" THEN
        Raised("TypeError", "the JSON object must be str, bytes or bytearray")
    ELSE IF raw.json.t = "invalid" THEN
        Raised("JSONDecodeError", "Expecting value")
    ELSE Returned(raw.json)

\* response.data.decode('utf-8'): the bytes of an HTTP body as text.
NotUtf8  == [t |-> "bytes", json |-> [t |-> "invalid"]]
NoData   == [t |-> "empty", json |-> [t |-> "invalid"]]

DecodeUtf8(data) ==
    IF data.t = "bytes" THEN Raised("UnicodeDecodeError", "'utf-8' codec can't decode byte")
    ELSE Returned([t |-> "text", json |-> data.json])

\* json.dumps(value) as it appears inside a message.
JsonText(v) == "json:" \o ToString(v)

PyBool(b) == [t |-> "bool", b |-> b]

\* A JSON object / Python dict with the given members.
Dict(members) == [t |-> "dict", d |-> members]

-----------------------------------------------------------------------------
(* The specialist runtime: bedrock_agent.invoke_agent and its event stream. *)
(* A stream delivers chunks[1..failAt] and then fails, or (failAt = -1)     *)
(* delivers every chunk and ends.  callExc # "" : the call itself fails.    *)

ChunkSamples == { <<"h">>, <<"C3", "A9">>, <<"C3">>, <<"A9">> }

RECURSIVE SeqsUpTo(_, _)
SeqsUpTo(S, n) ==
    IF n = 0 THEN { <<>> }
    ELSE LET shorter == SeqsUpTo(S, n - 1) IN
         shorter \cup { Append(q, x) : q \in { r \in shorter : Len(r) = n - 1 }, x \in S }

ChunkSeqs == SeqsUpTo(ChunkSamples, MaxChunks)

Streams ==
    { [callExc |-> "ClientError: invoke failed", chunks |-> <<>>, failAt |-> -1] }
    \cup UNION { { [callExc |-> "", chunks |-> cs, failAt |-> k] : k \in -1 .. Len(cs) } :
                    cs \in ChunkSeqs }

\* The stream of an invocation that never called the specialist.
NoStream == [callExc |-> "", chunks |-> <<>>, failAt |-> -2]

\* completion = ""; for chunk in response['completion']:
\*     completion += chunk['chunk']['bytes'].decode()
RECURSIVE ReadFrom(_, _, _)
ReadFrom(stream, i, completion) ==
    IF stream.failAt = i - 1 THEN
        Raised("EventStreamError", "stream failed")
    ELSE IF i > Len(stream.chunks) THEN Returned(completion)
    ELSE LET piece == Decode(stream.chunks[i]) IN
         IF piece.exc # "" THEN piece
         ELSE ReadFrom(stream, i + 1, completion \o piece.val)

ReadCompletion_partial(stream) ==
    LET RECURSIVE Go(_, _)
        Go(i, completion) ==
            IF stream.failAt = i - 1 \/ i > Len(stream.chunks) THEN Returned(completion)
            ELSE LET piece == Decode(stream.chunks[i]) IN
                 IF piece.exc # "" THEN Returned(completion)
                 ELSE Go(i + 1, completion \o piece.val)
    IN Go(1, <<>>)

ReadCompletion(stream) == ReadFrom(stream, 1, <<>>)

\* One call of bedrock_agent.invoke_agent, as the caller issued it.
InvokeCall(aliasId, sessionId, inputText) ==
    [api |-> "invoke_agent", agentAliasId |-> aliasId,
     sessionId |-> sessionId, inputText |-> inputText]

\* invoke_agent followed by the chunk loop.
InvokeAndRead(stream) ==
    IF stream.callExc # "" THEN Raised("ClientError", stream.callExc)
    ELSE ReadCompletion(stream)

-----------------------------------------------------------------------------
(* lambda/invoke_agent/app.py : the Request Gateway.                       *)

\* Values of ORCHESTRATOR_AGENT_ALIAS_ID, as sequences of text pieces.
AliasIds == { <<"TSTALIASID">>, <<"PLACEHOLDER">>, <<"ALIAS_", "PLACEHOLDER", "_ID">> }

\* "PLACEHOLDER" in ORCHESTRATOR_AGENT_ALIAS_ID
HasPlaceholder_wholeValue(aliasId) == aliasId = <<"PLACEHOLDER">>

HasPlaceholder(aliasId) == \E i \in 1 .. Len(aliasId) : aliasId[i] = "PLACEHOLDER"

\* What a request body may hold under "query" and under "session_id".
QueryValues   == { Absent, None, PyStr(""), PyStr("What is my balance?"), PyInt("0") }
SessionValues == { Absent, PyStr("sess-1"), PyStr("sess-2") }

\* event["body"]: no such key, null, text that is not JSON, JSON that is no
\* object, or a JSON object.
GatewayBodies ==
    { Absent, None, InvalidJson,
      JsonDumps([t |-> "list"]), JsonDumps(None), JsonDumps(PyStr("query")) }
    \cup { JsonDumps(Dict([query |-> q, session_id |-> sid])) :
             q \in QueryValues, sid \in SessionValues }

\* The events of the Gateway: a mapping with a body, or no mapping at all.
GatewayEvents == { None } \cup { [t |-> "dict", body |-> b] : b \in GatewayBodies }

\* The HTTP responses the handler builds.
HttpResponse(status, payload) ==
    [raised |-> FALSE, statusCode |-> status, body |-> JsonDumps(Dict(payload))]

ErrorResponse(status, text) ==
    HttpResponse(status, [error |-> text])

\* An exception that leaves the handler.
Propagated(e) == [raised |-> TRUE, statusCode |-> 0, body |-> None, exc |-> e.exc]

\* session_id = body.get("session_id", str(uuid.uuid4()))
SessionIdOf_alwaysFresh(body, fresh) == fresh

SessionIdOf(body, fresh) == Get(body.d, "session_id", fresh)

\* Lines 19-30: the two checks made before the specialist is invoked, in
\* the order of the code.  stop: the handler returns `response` at once.
GatewayChecks_placeholderFirst(prompt, aliasId) ==
    IF HasPlaceholder(aliasId) THEN
        [stop |-> TRUE, response |-> ErrorResponse(500,
            <<"Server is not configured. Agent Alias ID is a placeholder.">>)]
    ELSE IF ~Truthy(prompt) THEN
        [stop |-> TRUE, response |-> ErrorResponse(400, <<"Missing 'query' in request body">>)]
    ELSE [stop |-> FALSE]

GatewayChecks(prompt, aliasId) ==
    IF ~Truthy(prompt) THEN
        [stop |-> TRUE, response |-> ErrorResponse(400, <<"Missing 'query' in request body">>)]
    ELSE IF HasPlaceholder(aliasId) THEN
        [stop |-> TRUE, response |-> ErrorResponse(500,
            <<"Server is not configured. Agent Alias ID is a placeholder.">>)]
    ELSE [stop |-> FALSE]

\* Lines 14-47: the try block.  `fresh` is the value of str(uuid.uuid4()),
\* `stream` the answer of the specialist runtime if it is called.  Yields
\* the returned response or the exception raised, the calls issued and the
\* number of uuid4() calls.
GatewayTry(event, aliasId, fresh, stream) ==
    LET early(o)  == [out |-> o, calls |-> <<>>, uuids |-> 0]
        noCall(o) == [out |-> o, calls |-> <<>>, uuids |-> 1]
    IN
    IF event.t # "dict" THEN
        early(Raised("AttributeError", "object has no attribute 'get'"))
    ELSE
    LET raw    == IF event.body.t = "absent"
                  THEN JsonDumps(Dict([query |-> Absent, session_id |-> Absent]))
                  ELSE event.body
        loaded == JsonLoads(raw)
    IN
    IF loaded.exc # "" THEN early(loaded)
    ELSE IF loaded.val.t # "dict" THEN
        early(Raised("AttributeError", "object has no attribute 'get'"))
    ELSE
    LET body       == loaded.val
        prompt     == Get(body.d, "query", None)
        session_id == SessionIdOf(body, fresh)
        checks     == GatewayChecks(prompt, aliasId)
    IN
    IF checks.stop THEN noCall(Returned(checks.response))
    ELSE
    LET completion == InvokeAndRead(stream) IN
    [out   |-> IF completion.exc # "" THEN completion
               ELSE Returned(HttpResponse(200,
                        [response |-> completion.val, session_id |-> session_id])),
     calls |-> << InvokeCall(aliasId, session_id, prompt) >>,
     uuids |-> 1]

\* Lines 49-57: the except clauses.
GatewayExcept_onlyJson(e) ==
    IF e.exc = "JSONDecodeError" THEN
        ErrorResponse(400, <<"Invalid JSON in request body">>)
    ELSE Propagated(e)

GatewayExcept(e) ==
    IF e.exc = "JSONDecodeError" THEN
        ErrorResponse(400, <<"Invalid JSON in request body">>)
    ELSE ErrorResponse(500, <<"An internal error occurred: ", e.msg>>)

\* handler(event, context)
GatewayHandler(event, aliasId, fresh, stream) ==
    LET try == GatewayTry(event, aliasId, fresh, stream) IN
    [result |-> IF try.out.exc = "" THEN try.out.val ELSE GatewayExcept(try.out),
     calls  |-> try.calls,
     uuids  |-> try.uuids]

-----------------------------------------------------------------------------
(* Function-call events of the three adapters.                             *)

\* The mapping with no key, and parameters[name] = value.
EmptyMap == [k \in {} |-> None]
Assign(map, name, value) == (name :> value) @@ map

\* map.get(name, default) on a name-to-value mapping.
MapGet(map, name, default) == IF name \in DOMAIN map THEN map[name] ELSE default

\* A value no dict key can be (a list): parameters[param["name"]] raises.
Unhashable == [t |-> "list", s |-> ""]

\* Entries of a parameters list: {name, value} objects, an object without
\* "value", an object whose name is a list, and an entry that is no object.
Entry(name, value) == [t |-> "dict", d |-> [name |-> name, value |-> value]]

ParamEntries ==
    { Entry(PyStr("query"), PyStr("Should I buy bonds?")),
      Entry(PyStr("query"), PyStr("")),
      Entry(PyStr("user_id"), PyStr("alice")),
      Entry(PyStr("query"), Absent),
      Entry(Unhashable, PyStr("x")),
      PyStr("query") }

\* A parameters field: a list of entries, or an already-flat mapping, or
\* something that is neither.
ParamList(entries) == [t |-> "list", items |-> entries]
ParamMap(map)      == [t |-> "dict", pairs |-> map]

FlatMaps ==
    { EmptyMap,
      Assign(EmptyMap, "query", PyStr("Should I buy bonds?")),
      Assign(EmptyMap, "query", PyStr("")),
      Assign(EmptyMap, "user_id", PyStr("alice")),
      Assign(Assign(EmptyMap, "query", PyStr("Should I buy bonds?")), "user_id", PyStr("alice")) }

ParamFields ==
    { Absent, PyStr("query=x") }
    \cup { ParamList(es) : es \in SeqsUpTo(ParamEntries, MaxParams) }
    \cup { ParamMap(m) : m \in FlatMaps }

FunctionNames ==
    { "", "invoke_detailed_investment_agent", "get_portfolio_balance",
      "check_subscription", "subscribe_to_service", "place_order" }

FunctionEvent(fn, ag, params, text) ==
    Dict([function |-> fn, actionGroup |-> ag, parameters |-> params, inputText |-> text])

\* Events with every parameters field and no inputText, and direct-invocation
\* style events (an inputText) with a few parameters fields.
DictEvents ==
    { FunctionEvent(fn, ag, ps, Absent) :
        fn \in { Absent } \cup { PyStr(f) : f \in FunctionNames },
        ag \in { Absent, PyStr("InvestmentActions") },
        ps \in ParamFields }
    \cup
    { FunctionEvent(fn, PyStr("InvestmentActions"), ps, text) :
        fn \in { Absent, PyStr(""), PyStr("invoke_detailed_investment_agent"), PyStr("place_order") },
        ps \in { Absent,
                 ParamList(<< Entry(PyStr("query"), PyStr("Should I buy bonds?")) >>),
                 ParamList(<< Entry(Unhashable, PyStr("x")) >>) },
        text \in { PyStr(""), PyStr("What is a bond?") } }

\* An event may also arrive as a sequence, or be no mapping at all.
ListEvent(items) == [t |-> "list", items |-> items]

WrappedEvents ==
    { ListEvent(<<>>), ListEvent(<< PyStr("ping") >>) }
    \cup { ListEvent(<< e >>) : e \in { d \in DictEvents : d.d.parameters \in { Absent, ParamList(<< Entry(PyStr("query"), PyStr("Should I buy bonds?")) >>) } } }
    \cup { ListEvent(<< e, FunctionEvent(PyStr("place_order"), Absent, Absent, Absent) >>) :
             e \in { d \in DictEvents : d.d.parameters = Absent } }

FunctionEvents == DictEvents \cup WrappedEvents \cup { None, PyStr("ping") }

\* if isinstance(event, list): event = event[0] if event else {}
UnwrapEvent_last(event) ==
    IF event.t = "list"
    THEN IF event.items # <<>> THEN event.items[Len(event.items)]
         ELSE FunctionEvent(Absent, Absent, Absent, Absent)
    ELSE event

UnwrapEvent(event) ==
    IF event.t = "list"
    THEN IF event.items # <<>> THEN Head(event.items)
         ELSE FunctionEvent(Absent, Absent, Absent, Absent)
    ELSE event

\* for param in parameters_list:
\*     if isinstance(param, dict) and "name" in param and "value" in param:
\*         parameters[param["name"]] = param["value"]
RECURSIVE ParamsFromList_strict(_, _)
ParamsFromList_strict(items, parameters) ==
    IF items = <<>> THEN Returned(parameters)
    ELSE LET param == Head(items) IN
         IF param.t # "dict" THEN Raised("TypeError", "string indices must be integers")
         ELSE IF param.d.name = Absent \/ param.d.value = Absent THEN Raised("KeyError", "'value'")
         ELSE IF param.d.name = Unhashable THEN Raised("TypeError", "unhashable type: 'list'")
         ELSE ParamsFromList_strict(Tail(items), Assign(parameters, param.d.name.s, param.d.value))

RECURSIVE ParamsFromList(_, _)
ParamsFromList(items, parameters) ==
    IF items = <<>> THEN Returned(parameters)
    ELSE LET param == Head(items) IN
         IF param.t = "dict" /\ param.d.name # Absent /\ param.d.value # Absent
         THEN IF param.d.name = Unhashable
              THEN Raised("TypeError", "unhashable type: 'list'")
              ELSE ParamsFromList(Tail(items), Assign(parameters, param.d.name.s, param.d.value))
         ELSE ParamsFromList(Tail(items), parameters)

\* parameters_list = event.get("parameters", []), then the conversion of the
\* router and of the portfolio handler: only a list is converted.
ListOnlyParameters(field) ==
    IF field.t = "absent" THEN Returned(EmptyMap)
    ELSE IF field.t = "list" THEN ParamsFromList(field.items, EmptyMap)
    ELSE Returned(EmptyMap)

\* The conversion of the subscription handler: a mapping is taken as it is.
ListOrMapParameters(field) ==
    IF field.t = "absent" THEN Returned(EmptyMap)
    ELSE IF field.t = "list" THEN ParamsFromList(field.items, EmptyMap)
    ELSE IF field.t = "dict" THEN Returned(field.pairs)
    ELSE Returned(EmptyMap)

\* The result every adapter returns.
AdapterResult(action_group, function_name, body) ==
    [raised |-> FALSE, messageVersion |-> "1.0", actionGroup |-> action_group,
     function |-> function_name, body |-> body]

\* "Error: Unknown function: {function_name}"
UnknownFunction(action_group, function_name) ==
    AdapterResult(action_group, function_name,
                  <<"Error: Unknown function: ", function_name.s>>)

\* The except clause of an adapter: event.get("actionGroup", "") if the
\* event is a mapping, function_name if it was assigned.
AdapterExcept_reraise(doing, event, fnAssigned, function_name, e) ==
    [raised |-> TRUE, messageVersion |-> "", actionGroup |-> PyStr(""),
     function |-> PyStr(""), body |-> <<e.exc>>]

AdapterExcept_noEcho(doing, event, fnAssigned, function_name, e) ==
    AdapterResult(PyStr(""), PyStr(""), <<doing, e.msg>>)

AdapterExcept(doing, event, fnAssigned, function_name, e) ==
    AdapterResult(IF event.t = "dict" THEN Get(event.d, "actionGroup", PyStr("")) ELSE PyStr(""),
                  IF fnAssigned THEN function_name ELSE PyStr(""),
                  <<doing, e.msg>>)

-----------------------------------------------------------------------------
(* lambda/agent_router/detailed_investment_router.py : the router adapter. *)

RouterFunction == PyStr("invoke_detailed_investment_agent")

\* Lines 36-39: an event without function name but with an inputText is a
\* direct invocation of the specialist.
IsDirectInvocation_anyName(event, function_name) == event.d.inputText # Absent

IsDirectInvocation(event, function_name) ==
    ~Truthy(function_name) /\ event.d.inputText # Absent

\* Lines 17-103: the try block.  Yields the returned result or the exception
\* raised, the value of function_name at that point (fnAssigned: whether it
\* was assigned at all), the calls issued and the number of uuid4() calls.
RouterTry_queryFirst(event, fresh, stream) ==
    IF event.t # "dict" THEN
        [out |-> Raised("AttributeError", "object has no attribute 'get'"),
         fnAssigned |-> FALSE, function_name |-> PyStr(""), calls |-> <<>>, uuids |-> 0]
    ELSE
    LET named        == Get(event.d, "function", PyStr(""))
        action_group == Get(event.d, "actionGroup", PyStr(""))
        converted    == ListOnlyParameters(event.d.parameters)
        quiet(o, fn) == [out |-> o, fnAssigned |-> TRUE, function_name |-> fn,
                         calls |-> <<>>, uuids |-> 0]
    IN
    IF converted.exc # "" THEN quiet(converted, named)
    ELSE
    LET direct        == IsDirectInvocation(event, named)
        function_name == IF direct THEN RouterFunction ELSE named
        parameters    == IF direct
                         THEN Assign(EmptyMap, "query", Get(event.d, "inputText", PyStr("")))
                         ELSE converted.val
        query         == MapGet(parameters, "query", PyStr(""))
    IN
    IF ~Truthy(query) THEN
        quiet(Returned(AdapterResult(action_group, function_name,
                                     <<"Error: Missing 'query' parameter">>)),
              function_name)
    ELSE IF function_name # RouterFunction THEN
        quiet(Returned(UnknownFunction(action_group, function_name)), function_name)
    ELSE
    LET completion == InvokeAndRead(stream) IN
    [out |-> IF completion.exc # "" THEN completion
             ELSE Returned(AdapterResult(action_group, function_name, completion.val)),
     fnAssigned |-> TRUE, function_name |-> function_name,
     calls |-> << InvokeCall(<<"AGENT_ALIAS_ID">>, fresh, query) >>, uuids |-> 1]

RouterTry(event, fresh, stream) ==
    IF event.t # "dict" THEN
        [out |-> Raised("AttributeError", "object has no attribute 'get'"),
         fnAssigned |-> FALSE, function_name |-> PyStr(""), calls |-> <<>>, uuids |-> 0]
    ELSE
    LET named        == Get(event.d, "function", PyStr(""))
        action_group == Get(event.d, "actionGroup", PyStr(""))
        converted    == ListOnlyParameters(event.d.parameters)
        quiet(o, fn) == [out |-> o, fnAssigned |-> TRUE, function_name |-> fn,
                         calls |-> <<>>, uuids |-> 0]
    IN
    IF converted.exc # "" THEN quiet(converted, named)
    ELSE
    LET direct        == IsDirectInvocation(event, named)
        function_name == IF direct THEN RouterFunction ELSE named
        parameters    == IF direct
                         THEN Assign(EmptyMap, "query", Get(event.d, "inputText", PyStr("")))
                         ELSE converted.val
    IN
    IF function_name # RouterFunction THEN
        quiet(Returned(UnknownFunction(action_group, function_name)), function_name)
    ELSE
    LET query == MapGet(parameters, "query", PyStr("")) IN
    IF ~Truthy(query) THEN
        quiet(Returned(AdapterResult(action_group, function_name,
                                     <<"Error: Missing 'query' parameter">>)),
              function_name)
    ELSE
    LET completion == InvokeAndRead(stream) IN
    [out |-> IF completion.exc # "" THEN completion
             ELSE Returned(AdapterResult(action_group, function_name, completion.val)),
     fnAssigned |-> TRUE, function_name |-> function_name,
     calls |-> << InvokeCall(<<"AGENT_ALIAS_ID">>, fresh, query) >>, uuids |-> 1]

\* Lines 105-121: the except clause.
RouterExcept(event, try) ==
    AdapterExcept("Error invoking detailed investment agent: ",
                  event, try.fnAssigned, try.function_name, try.out)

\* handler(event, context)
RouterHandler(received, fresh, stream) ==
    LET event == UnwrapEvent(received)
        try   == RouterTry(event, fresh, stream)
    IN [result |-> IF try.out.exc = "" THEN try.out.val ELSE RouterExcept(event, try),
        calls  |-> try.calls,
        uuids  |-> try.uuids]

-----------------------------------------------------------------------------
(* lambda/portfolio_service/balance_fetcher.py : the portfolio adapter.    *)

\* format(n, ",.2f") and format(n, "+.2f") of a whole number.
Pad3(k) == IF k < 10 THEN "00" \o ToString(k)
           ELSE IF k < 100 THEN "0" \o ToString(k) ELSE ToString(k)

RECURSIVE Grouped(_)
Grouped(n) == IF n < 1000 THEN ToString(n)
              ELSE Grouped(n \div 1000) \o "," \o Pad3(n % 1000)

Money(n)  == (IF n < 0 THEN "-" \o Grouped(-n) ELSE Grouped(n)) \o ".00"
Signed(n) == (IF n < 0 THEN "-" \o ToString(-n) ELSE "+" \o ToString(n)) \o ".00"

\* "\n".join(response_parts)
RECURSIVE JoinLines(_)
JoinLines(parts) ==
    IF parts = <<>> THEN <<>>
    ELSE IF Len(parts) = 1 THEN parts
    ELSE << Head(parts), "\n" >> \o JoinLines(Tail(parts))

\* What the portfolio API may answer.
Position(symbol, value, gain) ==
    Dict([symbol |-> PyStr(symbol), name |-> PyStr(symbol), totalValue |-> PyNum(value),
          gainLossPercent |-> PyNum(gain)])

PositionSamples ==
    { Position("AAA", 300, 2), Position("BBB", 900, -1), Position("CCC", 700, 5),
      Position("DDD", 700, 0) }

Performance(n) == Dict([twelveMonths |-> Dict([percentReturn |-> PyNum(n)])])
DaySummary(change, percent) ==
    Dict([dayChange |-> PyNum(change), dayChangePercent |-> PyNum(percent)])

Portfolio(total, cash, performance, summary, positions) ==
    Dict([totalValue |-> total, cashBalance |-> cash, currency |-> PyStr("USD"),
          performance |-> performance, summary |-> summary, positions |-> positions])

PositionList(ps) == [t |-> "list", items |-> ps]

\* Snapshots: every positions list with the other fields fixed, and every
\* combination of the other fields with few positions lists.
Portfolios ==
    { Portfolio(PyNum(105000), PyNum(1500), Performance(12), DaySummary(-250, -1), PositionList(ps)) :
        ps \in SeqsUpTo(PositionSamples, MaxPositions) }
    \cup
    { Portfolio(total, cash, perf, summ, ps) :
        total \in { Absent, PyNum(105000), PyStr("n/a") },
        cash  \in { Absent, PyNum(-20), PyNum(0), PyNum(50), PyNum(1000), PyNum(1001),
                    PyNum(1500), PyStr("lots") },
        perf  \in { Absent, Performance(12), None },
        summ  \in { Absent, DaySummary(-250, -1) },
        ps    \in { Absent, PositionList(<< Position("AAA", 300, 2) >>),
                    PositionList(<< Position("AAA", 300, 2), PyStr("EEE") >>) } }

Snapshots ==
    { None, [t |-> "list", items |-> <<>>],
      Dict([portfolio |-> Absent]), Dict([portfolio |-> None]) }
    \cup { Dict([portfolio |-> pf]) : pf \in Portfolios }

\* The answers of http.request('GET', PORTFOLIO_API_ENDPOINT).
HttpFailed        == [exc |-> "MaxRetryError", status |-> 0, data |-> InvalidJson]
HttpAnswer(st, d) == [exc |-> "", status |-> st, data |-> d]

PortfolioAnswers ==
    { HttpFailed, HttpAnswer(503, JsonDumps(None)), HttpAnswer(200, InvalidJson),
      HttpAnswer(200, NotUtf8),
      HttpAnswer(404, JsonDumps(Dict([portfolio |->
          Portfolio(PyNum(105000), PyNum(1500), Performance(12), DaySummary(-250, -1),
                    PositionList(<<>>))]))) }
    \cup { HttpAnswer(200, JsonDumps(snap)) : snap \in Snapshots }

\* The answer of an invocation that never called the API.
NoAnswer == [exc |-> "", status |-> -1, data |-> InvalidJson]

\* fetch_portfolio_balance(): the parsed data, or None.
fetch_portfolio_balance_anyStatus(answer) ==
    IF answer.exc # "" THEN None
    ELSE LET text == DecodeUtf8(answer.data)
             data == IF text.exc # "" THEN text ELSE JsonLoads(text.val)
         IN IF data.exc # "" THEN None ELSE data.val

fetch_portfolio_balance(answer) ==
    IF answer.exc # "" THEN None
    ELSE IF answer.status = 200 THEN
        LET text == DecodeUtf8(answer.data)
            data == IF text.exc # "" THEN text ELSE JsonLoads(text.val)
        IN IF data.exc # "" THEN None ELSE data.val
    ELSE None

\* portfolio_data.get('portfolio', {}).get('totalValue', 0), and the like.
NoMembers == [totalValue |-> Absent, cashBalance |-> Absent, currency |-> Absent,
              performance |-> Absent, summary |-> Absent, positions |-> Absent]

\* sorted(positions, key=lambda x: x.get('totalValue', 0), reverse=True):
\* stable, so positions of equal value keep their order.
KeyOf(position) == Get(position.d, "totalValue", PyNum(0)).n

RECURSIVE InsertDesc_tiesReversed(_, _)
InsertDesc_tiesReversed(sorted, x) ==
    IF sorted = <<>> THEN << x >>
    ELSE IF KeyOf(Head(sorted)) > KeyOf(x)
         THEN << Head(sorted) >> \o InsertDesc_tiesReversed(Tail(sorted), x)
    ELSE << x >> \o sorted

RECURSIVE InsertDesc(_, _)
InsertDesc(sorted, x) ==
    IF sorted = <<>> THEN << x >>
    ELSE IF KeyOf(Head(sorted)) >= KeyOf(x) THEN << Head(sorted) >> \o InsertDesc(Tail(sorted), x)
    ELSE << x >> \o sorted

RECURSIVE SortedDesc(_)
SortedDesc(positions) ==
    IF positions = <<>> THEN <<>>
    ELSE InsertDesc(SortedDesc(SubSeq(positions, 1, Len(positions) - 1)),
                    positions[Len(positions)])

\* sorted_positions[:3]
TopThree(positions) ==
    LET sorted == SortedDesc(positions) IN
    SubSeq(sorted, 1, IF Len(sorted) < 3 THEN Len(sorted) ELSE 3)

\* f"{i+1}. {symbol} - ${total_value:,.2f} ({gain_loss_percent:+.2f}%)"
HoldingLine(i, position) ==
    ToString(i) \o ". " \o Get(position.d, "symbol", PyStr("N/A")).s \o " - $"
    \o Money(Get(position.d, "totalValue", PyNum(0)).n)
    \o " (" \o Signed(Get(position.d, "gainLossPercent", PyNum(0)).n) \o "%)"

\* Lines 155-173: the investment-opportunity paragraph.
CashAdvice_from1000(cash_balance) ==
    IF cash_balance > 0 THEN
        << "", "**Investment Opportunity:**",
           "I notice you have $" \o Money(cash_balance) \o " in cash sitting in your account. " >>
        \o (IF cash_balance >= 1000 THEN
                << "This represents a good opportunity to deploy this capital into your investment strategy. ",
                   "Consider:",
                   "* Dollar-cost averaging into your existing holdings",
                   "* Rebalancing your portfolio to maintain your target allocation",
                   "* Investing in diversified index funds if you're looking for broad market exposure" >>
            ELSE
                << "While this amount is relatively small, every dollar invested has the potential to grow over time. ",
                   "Consider adding it to your regular investment positions." >>)
        \o << "",
              "Remember: Time in the market tends to be more beneficial than timing the market. ",
              "However, please consider your own financial goals and risk tolerance before making any investment decisions." >>
    ELSE <<>>

CashAdvice(cash_balance) ==
    IF cash_balance > 0 THEN
        << "", "**Investment Opportunity:**",
           "I notice you have $" \o Money(cash_balance) \o " in cash sitting in your account. " >>
        \o (IF cash_balance > 1000 THEN
                << "This represents a good opportunity to deploy this capital into your investment strategy. ",
                   "Consider:",
                   "* Dollar-cost averaging into your existing holdings",
                   "* Rebalancing your portfolio to maintain your target allocation",
                   "* Investing in diversified index funds if you're looking for broad market exposure" >>
            ELSE
                << "While this amount is relatively small, every dollar invested has the potential to grow over time. ",
                   "Consider adding it to your regular investment positions." >>)
        \o << "",
              "Remember: Time in the market tends to be more beneficial than timing the market. ",
              "However, please consider your own financial goals and risk tolerance before making any investment decisions." >>
    ELSE <<>>

\* Lines 175-187: the top holdings.
TopHoldings(positions) ==
    IF positions.t = "list" /\ positions.items # <<>> THEN
        IF \E i \in 1 .. Len(positions.items) : positions.items[i].t # "dict"
        THEN Raised("AttributeError", "object has no attribute 'get'")
        ELSE LET top == TopThree(positions.items) IN
             Returned(<< "", "**Top Holdings:**" >>
                      \o [i \in 1 .. Len(top) |-> HoldingLine(i, top[i])])
    ELSE Returned(<<>>)

\* Lines 131-189: the try block of generate_balance_response.
NarrativeTry(portfolio_data) ==
    IF portfolio_data.t # "dict" THEN Raised("AttributeError", "object has no attribute 'get'")
    ELSE
    LET portfolio == Get(portfolio_data.d, "portfolio", Dict(NoMembers)) IN
    IF portfolio.t # "dict" THEN Raised("AttributeError", "object has no attribute 'get'")
    ELSE
    LET total_value  == Get(portfolio.d, "totalValue", PyNum(0))
        cash_balance == Get(portfolio.d, "cashBalance", PyNum(0))
        currency     == Get(portfolio.d, "currency", PyStr("USD"))
        performance  == Get(portfolio.d, "performance", Performance(0))
        summary      == Get(portfolio.d, "summary", DaySummary(0, 0))
        positions    == Get(portfolio.d, "positions", PositionList(<<>>))
    IN
    IF performance.t # "dict" \/ summary.t # "dict" THEN
        Raised("AttributeError", "object has no attribute 'get'")
    ELSE IF total_value.t # "num" \/ cash_balance.t # "num" THEN
        Raised("ValueError", "Unknown format code 'f' for object of type 'str'")
    ELSE
    LET holdings == TopHoldings(positions) IN
    IF holdings.exc # "" THEN holdings
    ELSE Returned(JoinLines(
        << "Here's your current portfolio summary:",
           "* Total Portfolio Value: $" \o Money(total_value.n) \o " " \o currency.s,
           "* Available Cash Balance: $" \o Money(cash_balance.n) \o " " \o currency.s,
           "* Today's Change: $" \o Money(summary.d.dayChange.n)
               \o " (" \o Signed(summary.d.dayChangePercent.n) \o "%)",
           "* 12-Month Return: " \o Signed(performance.d.twelveMonths.d.percentReturn.n) \o "%" >>
        \o CashAdvice(cash_balance.n)
        \o holdings.val))

\* Lines 191-193: the fallback, which reads the total value again.
FallbackSummary(portfolio_data) ==
    IF portfolio_data.t # "dict" THEN Raised("AttributeError", "object has no attribute 'get'")
    ELSE
    LET portfolio == Get(portfolio_data.d, "portfolio", Dict(NoMembers)) IN
    IF portfolio.t # "dict" THEN Raised("AttributeError", "object has no attribute 'get'")
    ELSE
    LET total_value == Get(portfolio.d, "totalValue", PyNum(0)) IN
    IF total_value.t # "num" THEN
        Raised("ValueError", "Unknown format code 'f' for object of type 'str'")
    ELSE Returned(<< "I was able to fetch your portfolio data, but encountered an issue formatting the response. Your total portfolio value is $"
                     \o Money(total_value.n) \o "." >>)

\* generate_balance_response(portfolio_data)
generate_balance_response(portfolio_data) ==
    LET try == NarrativeTry(portfolio_data) IN
    IF try.exc = "" THEN try ELSE FallbackSummary(portfolio_data)

PortfolioFunction == PyStr("get_portfolio_balance")

Apology ==
    << "Sorry, I'm unable to fetch your portfolio balance at the moment. Please try again later." >>

PortfolioGet == << [api |-> "GET portfolio/balance"] >>

\* Lines 18-87: the try block of the handler.
PortfolioTry(event, answer) ==
    IF event.t # "dict" THEN
        [out |-> Raised("AttributeError", "object has no attribute 'get'"),
         fnAssigned |-> FALSE, function_name |-> PyStr(""), calls |-> <<>>]
    ELSE
    LET function_name == Get(event.d, "function", PyStr(""))
        action_group  == Get(event.d, "actionGroup", PyStr(""))
        converted     == ListOnlyParameters(event.d.parameters)
        quiet(o)      == [out |-> o, fnAssigned |-> TRUE, function_name |-> function_name,
                          calls |-> <<>>]
        called(o)     == [out |-> o, fnAssigned |-> TRUE, function_name |-> function_name,
                          calls |-> PortfolioGet]
    IN
    IF converted.exc # "" THEN quiet(converted)
    ELSE IF function_name # PortfolioFunction THEN
        quiet(Returned(UnknownFunction(action_group, function_name)))
    ELSE
    LET portfolio_data == fetch_portfolio_balance(answer) IN
    IF portfolio_data = None THEN
        called(Returned(AdapterResult(action_group, function_name, Apology)))
    ELSE
    LET response_text == generate_balance_response(portfolio_data) IN
    IF response_text.exc # "" THEN called(response_text)
    ELSE called(Returned(AdapterResult(action_group, function_name, response_text.val)))

\* Lines 89-104: the except clause.
PortfolioExcept(event, try) ==
    AdapterExcept("Error fetching portfolio balance: ",
                  event, try.fnAssigned, try.function_name, try.out)

\* handler(event, context)
PortfolioHandler(received, answer) ==
    LET event == UnwrapEvent(received)
        try   == PortfolioTry(event, answer)
    IN [result |-> IF try.out.exc = "" THEN try.out.val ELSE PortfolioExcept(event, try),
        calls  |-> try.calls]

-----------------------------------------------------------------------------
(* lambda/subscription_service/subscription_handler.py : the subscription  *)
(* adapter, check_subscription and subscribe_to_service.                   *)

AgentList(names) == [t |-> "list", items |-> names]

\* Bodies of an HTTP 200 answer of the permissions API.
PermissionBodies ==
    { JsonDumps(Dict([data |-> Dict([permitted_agents |-> AgentList(<<>>)])])),
      JsonDumps(Dict([data |-> Dict([permitted_agents |-> AgentList(<<"detailed-investment-agent">>)])])),
      JsonDumps(Dict([data |-> Dict([permitted_agents |-> Absent])])),
      JsonDumps(Dict([data |-> Dict([permitted_agents |-> None])])),
      JsonDumps(Dict([data |-> Absent])),
      JsonDumps(Dict([data |-> None])),
      JsonDumps(AgentList(<<>>)),
      JsonDumps(AgentList(<<"detailed-investment-agent">>)),
      JsonDumps(PyStr("ok")),
      InvalidJson, NotUtf8, NoData }

\* The answers of http.request on the permissions API: the request fails
\* with a urllib3 HTTPError or with another exception, or is answered.
HttpError(kind) == [exc |-> kind, status |-> 0, data |-> InvalidJson]

PermissionAnswers ==
    { HttpError("HTTPError"), HttpError("OtherError") }
    \cup { HttpAnswer(st, d) : st \in { 404, 500 }, d \in { NoData, JsonDumps(PyStr("denied")), NotUtf8 } }
    \cup { HttpAnswer(200, d) : d \in PermissionBodies }

\* A result of check_subscription / subscribe_to_service.
Outcome(status, payload) == [statusCode |-> status, body |-> JsonDumps(Dict(payload))]

Failure(error, details) == Outcome(500, [error |-> error, details |-> details])

\* The `if response.status != 200` block, shared by both operations: the
\* HTTP-status failure, or the exception of decoding the details.
StatusFailure(answer) ==
    IF answer.data.t = "empty" THEN
        Returned(Failure("API request failed with status: " \o ToString(answer.status),
                         "No response data"))
    ELSE LET details == DecodeUtf8(answer.data) IN
         IF details.exc # "" THEN details
         ELSE Returned(Failure("API request failed with status: " \o ToString(answer.status),
                               JsonText(details.val)))

\* The except clauses, shared in shape by both operations.
OperationExcept(e, httpError, internalError) ==
    IF e.exc = "HTTPError" THEN Failure(httpError, e.msg)
    ELSE IF e.exc = "JSONDecodeError" THEN Failure("Invalid JSON response from API", e.msg)
    ELSE Failure(internalError, e.msg)

\* Lines 141-151: the permitted agents of a parsed answer, and len(...) > 0.
PermittedAgents(subscription_data) ==
    IF subscription_data.t = "dict" THEN
        LET data == Get(subscription_data.d, "data", Dict([permitted_agents |-> Absent])) IN
        IF data.t # "dict" THEN Raised("AttributeError", "object has no attribute 'get'")
        ELSE Returned(Get(data.d, "permitted_agents", AgentList(<<>>)))
    ELSE IF subscription_data.t = "list" THEN Returned(subscription_data)
    ELSE Returned(AgentList(<<>>))

HasSubscription_always(permitted_agents) == Returned(PyBool(TRUE))

HasSubscription(permitted_agents) ==
    CASE permitted_agents.t = "list" -> Returned(PyBool(Len(permitted_agents.items) > 0))
      [] permitted_agents.t = "str"  -> Returned(PyBool(permitted_agents.s # ""))
      [] OTHER -> Raised("TypeError", "object of type 'NoneType' has no len()")

\* Lines 118-161: the try block of check_subscription.
CheckTry(parameters, answer) ==
    IF answer.exc # "" THEN Raised(answer.exc, "request failed")
    ELSE IF answer.status # 200 THEN StatusFailure(answer)
    ELSE
    LET user_id == MapGet(parameters, "user_id", PyStr("quang"))
        text    == DecodeUtf8(answer.data)
        subscription_data == IF text.exc # "" THEN text ELSE JsonLoads(text.val)
    IN
    IF subscription_data.exc # "" THEN subscription_data
    ELSE
    LET permitted_agents == PermittedAgents(subscription_data.val) IN
    IF permitted_agents.exc # "" THEN permitted_agents
    ELSE
    LET has_subscription == HasSubscription(permitted_agents.val) IN
    IF has_subscription.exc # "" THEN has_subscription
    ELSE Returned(Outcome(200, [has_subscription |-> has_subscription.val,
                                permitted_agents |-> permitted_agents.val,
                                user_id |-> user_id,
                                raw_response |-> subscription_data.val]))

\* check_subscription(parameters)
check_subscription(parameters, answer) ==
    LET try == CheckTry(parameters, answer) IN
    IF try.exc = "" THEN try.val
    ELSE OperationExcept(try, "Failed to check subscription status",
                         "Internal error while checking subscription")

\* Lines 196-242: the try block of subscribe_to_service.
SubscribeTry_anyStatus(parameters, answer) ==
    IF answer.exc # "" THEN Raised(answer.exc, "request failed")
    ELSE
    LET user_id    == MapGet(parameters, "user_id", PyStr("quang"))
        agent_name == MapGet(parameters, "agent_name", PyStr("detailed-investment-agent"))
        text       == DecodeUtf8(answer.data)
        subscription_result == IF text.exc # "" THEN text ELSE JsonLoads(text.val)
    IN
    IF subscription_result.exc # "" THEN subscription_result
    ELSE Returned(Outcome(200, [success |-> PyBool(TRUE),
                                message |-> PyStr("Successfully subscribed " \o user_id.s
                                                  \o " to " \o agent_name.s),
                                subscription_result |-> subscription_result.val]))

SubscribeTry(parameters, answer) ==
    IF answer.exc # "" THEN Raised(answer.exc, "request failed")
    ELSE IF answer.status # 200 THEN StatusFailure(answer)
    ELSE
    LET user_id    == MapGet(parameters, "user_id", PyStr("quang"))
        agent_name == MapGet(parameters, "agent_name", PyStr("detailed-investment-agent"))
        text       == DecodeUtf8(answer.data)
        subscription_result == IF text.exc # "" THEN text ELSE JsonLoads(text.val)
    IN
    IF subscription_result.exc # "" THEN subscription_result
    ELSE Returned(Outcome(200, [success |-> PyBool(TRUE),
                                message |-> PyStr("Successfully subscribed " \o user_id.s
                                                  \o " to " \o agent_name.s),
                                subscription_result |-> subscription_result.val]))

\* subscribe_to_service(parameters)
subscribe_to_service(parameters, answer) ==
    LET try == SubscribeTry(parameters, answer) IN
    IF try.exc = "" THEN try.val
    ELSE OperationExcept(try, "Failed to subscribe to service",
                         "Internal error while subscribing")

CheckFunction     == PyStr("check_subscription")
SubscribeFunction == PyStr("subscribe_to_service")

Congratulation ==
    << "Great! You have successfully subscribed to the Vanguard Investment Advice service. You now have access to detailed investment advice and personalized recommendations." >>

\* Lines 62-79: the text made of the operation's result.
ResponseText(function_name, result) ==
    IF result.statusCode = 200 THEN
        LET body_data == JsonLoads(result.body).val IN
        IF function_name = CheckFunction THEN << JsonText(body_data) >>
        ELSE IF body_data.d.success.b THEN Congratulation
        ELSE << "There was an issue with your subscription: ", body_data.d.message.s >>
    ELSE LET error_data == JsonLoads(result.body).val IN
         << "Error: ", error_data.d.error >>

\* The external call each operation issues.
PermissionCall_retried(function_name, parameters) ==
    LET call == [api |-> IF function_name = CheckFunction
                         THEN "GET permissions" ELSE "POST permissions",
                 user_id |-> MapGet(parameters, "user_id", PyStr("quang"))]
    IN << call, call >>

PermissionCall(function_name, parameters) ==
    IF function_name = CheckFunction
    THEN << [api |-> "GET permissions", user_id |-> MapGet(parameters, "user_id", PyStr("quang"))] >>
    ELSE << [api |-> "POST permissions", user_id |-> MapGet(parameters, "user_id", PyStr("quang")),
             agent_name |-> MapGet(parameters, "agent_name", PyStr("detailed-investment-agent"))] >>

\* Lines 19-94: the try block of the handler.
SubscriptionTry(event, answer) ==
    IF event.t # "dict" THEN
        [out |-> Raised("AttributeError", "object has no attribute 'get'"),
         fnAssigned |-> FALSE, function_name |-> PyStr(""), calls |-> <<>>]
    ELSE
    LET function_name == Get(event.d, "function", PyStr(""))
        action_group  == Get(event.d, "actionGroup", PyStr(""))
        converted     == ListOrMapParameters(event.d.parameters)
        quiet(o)      == [out |-> o, fnAssigned |-> TRUE, function_name |-> function_name,
                          calls |-> <<>>]
    IN
    IF converted.exc # "" THEN quiet(converted)
    ELSE IF function_name \notin { CheckFunction, SubscribeFunction } THEN
        quiet(Returned(UnknownFunction(action_group, function_name)))
    ELSE
    LET parameters == converted.val
        result == IF function_name = CheckFunction
                  THEN check_subscription(parameters, answer)
                  ELSE subscribe_to_service(parameters, answer)
    IN [out |-> Returned(AdapterResult(action_group, function_name,
                                       ResponseText(function_name, result))),
        fnAssigned |-> TRUE, function_name |-> function_name,
        calls |-> PermissionCall(function_name, parameters)]

\* Lines 96-111: the except clause.
SubscriptionExcept(event, try) ==
    AdapterExcept("Error in subscription handler: ",
                  event, try.fnAssigned, try.function_name, try.out)

\* handler(event, context)
SubscriptionHandler(received, answer) ==
    LET event == UnwrapEvent(received)
        try   == SubscriptionTry(event, answer)
    IN [result |-> IF try.out.exc = "" THEN try.out.val ELSE SubscriptionExcept(event, try),
        calls  |-> try.calls]

-----------------------------------------------------------------------------
(* lambda/agent_preparer/prepare_agents.py : the custom resource that      *)
(* prepares the agents and their aliases.                                  *)

\* One entry of ResourceProperties['Agents'] and of ['Aliases'].
Agent(k) == [AgentId   |-> PyStr("AGENT" \o ToString(k)),
             AgentName |-> PyStr("agent-" \o ToString(k))]
Alias(k) == [AgentId   |-> PyStr("AGENT" \o ToString(k)),
             AliasId   |-> PyStr("ALIAS" \o ToString(k)),
             AliasName |-> PyStr("alias-" \o ToString(k))]

\* The lists a request can carry: n entries, the last of which may lack its
\* name.
AgentLists ==
    { [k \in 1 .. n |-> Agent(k)] : n \in 0 .. MaxAgents }
    \cup { [k \in 1 .. n |-> IF k = n THEN [Agent(k) EXCEPT !.AgentName = Absent]
                                      ELSE Agent(k)] : n \in 1 .. MaxAgents }
AliasLists ==
    { [k \in 1 .. n |-> Alias(k)] : n \in 0 .. MaxAliases }
    \cup { [k \in 1 .. n |-> IF k = n THEN [Alias(k) EXCEPT !.AliasName = Absent]
                                      ELSE Alias(k)] : n \in 1 .. MaxAliases }

\* The CloudFormation custom-resource event.
CfnEvent(request_type, response_url, agents, aliases) ==
    [RequestType |-> request_type, ResponseURL |-> response_url,
     ResourceProperties |-> [Agents |-> agents, Aliases |-> aliases]]

ResponseUrl == PyStr("https://cloudformation.example/response")

PreparerEvents ==
    { CfnEvent(PyStr(rt), ResponseUrl, agents, aliases) :
        rt \in { "Create", "Update" }, agents \in AgentLists, aliases \in AliasLists }
    \cup { CfnEvent(rt, ResponseUrl, << Agent(1) >>, << Alias(1) >>) :
             rt \in { PyStr("Delete"), PyStr("Replace"), Absent } }
    \cup { CfnEvent(PyStr(rt), Absent, << Agent(1) >>, <<>>) :
             rt \in { "Create", "Delete", "Replace" } }

\* Lines 44-83: the agents in their order, then the aliases in theirs.
Work_aliasesFirst(event) ==
    LET agents  == event.ResourceProperties.Agents
        aliases == event.ResourceProperties.Aliases
    IN [k \in 1 .. Len(aliases) |-> [kind |-> "alias", info |-> aliases[k]]]
       \o [k \in 1 .. Len(agents) |-> [kind |-> "agent", info |-> agents[k]]]

Work(event) ==
    LET agents  == event.ResourceProperties.Agents
        aliases == event.ResourceProperties.Aliases
    IN [k \in 1 .. Len(agents) |-> [kind |-> "agent", info |-> agents[k]]]
       \o [k \in 1 .. Len(aliases) |-> [kind |-> "alias", info |-> aliases[k]]]

\* The local variables of an invocation: the position in the code, the entry
\* being prepared, the sleeps of the running wait, the status its last poll
\* saw and how it ended, the Bedrock calls issued, `results`, the response
\* about to be sent, the responses PUT and what the handler returned.
NoResponse   == [Status |-> "", Data |-> EmptyMap, Reason |-> <<>>]
PreparerIdle ==
    [pc |-> "idle", event |-> CfnEvent(Absent, Absent, <<>>, <<>>), at |-> 0,
     waited |-> 0, observed |-> "", ended |-> "", calls |-> <<>>,
     results |-> EmptyMap, pending |-> NoResponse, responses |-> <<>>,
     returned |-> Returned(0)]

\* The outcomes of a Bedrock call and the statuses a poll can see ("error":
\* the call raised).
CallOutcomes == { "ok", "error" }
PollAnswers  == { "PREPARED", "FAILED", "PREPARING", "error" }

\* Lines 85 and 89: the response a request ends with.
Respond(p, status, data, reason) ==
    [p EXCEPT !.pc = "respond",
              !.pending = [Status |-> status, Data |-> data, Reason |-> reason]]

\* The next iteration of the loops at lines 44 and 63, or line 85.
Proceed(p) ==
    IF p.at <= Len(Work(p.event))
    THEN [p EXCEPT !.pc = Work(p.event)[p.at].kind]
    ELSE Respond(p, "SUCCESS", p.results, <<>>)

\* results[key] = value, at lines 56, 60, 79 and 83.
Recorded(p, key, value) ==
    Proceed([p EXCEPT !.results = Assign(p.results, key, value), !.at = p.at + 1])

\* handler(event, context), lines 14-26, and lines 37-41.
PreparerHandler(event) ==
    LET request_type == event.RequestType
        begun == [PreparerIdle EXCEPT !.event = event, !.at = 1]
    IN
    IF request_type \in { PyStr("Create"), PyStr("Update") } THEN Proceed(begun)
    ELSE IF request_type = PyStr("Delete") THEN Respond(begun, "SUCCESS", EmptyMap, <<>>)
    ELSE Respond(begun, "FAILED", EmptyMap,
                 <<"Unknown request type: ",
                   IF request_type = Absent THEN "None" ELSE request_type.s>>)

\* One iteration of the loop of wait_for_agent_preparation, after `waited`
\* sleeps, when get_agent answers `answer`.  The exception raised at line
\* 109 for FAILED is caught at line 113, which sleeps like every other
\* iteration that did not see PREPARED.
wait_for_agent_preparation(agent_name, waited, answer) ==
    IF answer = "PREPARED" THEN [ended |-> "returned", waited |-> waited, out |-> Returned(TRUE)]
    ELSE LET slept == waited + 1 IN
         IF slept < MaxWaitPolls
         THEN [ended |-> "", waited |-> slept, out |-> Returned(FALSE)]
         ELSE [ended |-> "timeout", waited |-> slept,
               out |-> Raised("Exception", <<"Timeout waiting for agent ", agent_name,
                                             " to be prepared">>)]

\* The same for wait_for_alias_preparation (lines 126-148).
wait_for_alias_preparation(alias_name, waited, answer) ==
    IF answer = "PREPARED" THEN [ended |-> "returned", waited |-> waited, out |-> Returned(TRUE)]
    ELSE LET slept == waited + 1 IN
         IF slept < MaxWaitPolls
         THEN [ended |-> "", waited |-> slept, out |-> Returned(FALSE)]
         ELSE [ended |-> "timeout", waited |-> slept,
               out |-> Raised("Exception", <<"Timeout waiting for alias ", alias_name,
                                             " to be prepared">>)]

\* The state after one poll: the wait goes on, or its outcome is recorded.
AfterPoll(p, key, step, answer) ==
    LET seen == [p EXCEPT !.waited = step.waited, !.observed = answer,
                          !.ended = step.ended]
    IN IF step.ended = "" THEN seen
       ELSE Recorded(seen, key, IF step.out.exc = "" THEN <<"Prepared">>
                                ELSE <<"Error: ">> \o step.out.msg)

\* send_response: the PUT to event['ResponseURL'] and what is returned.
send_response_retried(event, response_status, response_data, reason, put) ==
    LET response == [url |-> event.ResponseURL, Status |-> response_status,
                     Reason |-> reason, Data |-> response_data]
    IN IF event.ResponseURL = Absent
       THEN [out |-> Raised("KeyError", <<"'ResponseURL'">>), sent |-> <<>>]
       ELSE IF put = "ok" THEN [out |-> Returned(200), sent |-> << response >>]
       ELSE [out |-> Returned(500), sent |-> << response, response >>]

send_response(event, response_status, response_data, reason, put) ==
    IF event.ResponseURL = Absent
    THEN [out |-> Raised("KeyError", <<"'ResponseURL'">>), sent |-> <<>>]
    ELSE [out  |-> Returned(IF put = "ok" THEN 200 ELSE 500),
          sent |-> << [url |-> event.ResponseURL, Status |-> response_status,
                       Reason |-> IF reason = <<>>
                                  THEN <<"See CloudWatch Log Stream: ", "log_stream_name">>
                                  ELSE reason,
                       Data |-> response_data] >>]

-----------------------------------------------------------------------------
(* The state machine.                                                      *)

\* The execution environments that can serve requests at the same time, and
\* the local variables of one that serves none.
Slots == { "a", "b" }
Free  == [pc |-> "free", completion |-> <<>>]

Init ==
    /\ alias \in AliasIds
    /\ uuidCount = 0
    /\ issued = <<>>
    /\ last = [handler |-> "none"]
    /\ running = [slot \in Slots |-> Free]
    /\ preparer = PreparerIdle

\* The streams an invocation can meet: only a handler that calls the
\* specialist runtime meets one.
StreamsFor(calls) == IF calls = <<>> THEN { NoStream } ELSE Streams

Idle == [handler |-> "none"]

\* One request to the Gateway.
GatewayRequest ==
    /\ last = Idle
    /\ uuidCount < MaxUuid
    /\ \E event \in GatewayEvents :
         LET fresh == uuid4(uuidCount + 1) IN
         \E stream \in StreamsFor(GatewayHandler(event, alias, fresh, NoStream).calls) :
         LET run == GatewayHandler(event, alias, fresh, stream)
             generated ==
                 /\ ~run.result.raised
                 /\ run.result.statusCode = 200
                 /\ event.body.json.d.session_id = Absent
         IN
         /\ last' = [handler |-> "gateway", event |-> event, fresh |-> fresh,
                     stream |-> stream, calls |-> run.calls, result |-> run.result]
         /\ uuidCount' = uuidCount + run.uuids
         /\ issued' = IF generated
                      THEN Append(issued, run.result.body.json.d.session_id)
                      ELSE issued
         /\ UNCHANGED <<alias, running, preparer>>

\* The events met with every answer of the external service; every other
\* event is met with a few answers.
PlainEvents ==
    { FunctionEvent(PyStr(f), PyStr("InvestmentActions"),
                    ParamList(<< Entry(PyStr("query"), PyStr("Should I buy bonds?")) >>), Absent) :
        f \in FunctionNames }
    \cup { FunctionEvent(PyStr(f), PyStr("InvestmentActions"),
                          ParamMap(Assign(EmptyMap, "user_id", PyStr("alice"))), Absent) :
             f \in { "check_subscription", "subscribe_to_service" } }
    \cup { FunctionEvent(Absent, PyStr("InvestmentActions"), Absent, PyStr("What is a bond?")) }

FewStreams ==
    { s \in Streams : s.callExc # "" \/ s.chunks = << <<"h">> >> }

RouterInputs ==
    (FunctionEvents \X FewStreams) \cup (PlainEvents \X Streams)

\* The session of the conversation in whose course the orchestrator calls a
\* function: one a caller supplied to the Gateway or one the Gateway
\* generated.  The handler receives it with the event and never reads it.
Conversations == { PyStr("sess-1") } \cup { issued[i] : i \in DOMAIN issued }

\* One function-call event to the router adapter.
RouterRequest ==
    /\ last = Idle
    /\ uuidCount < MaxUuid
    /\ \E in \in RouterInputs, conversation \in Conversations :
         LET event  == in[1]
             fresh  == uuid4(uuidCount + 1)
             run    == RouterHandler(event, fresh, in[2])
             stream == IF run.calls = <<>> THEN NoStream ELSE in[2]
         IN
         /\ last' = [handler |-> "router", event |-> event, fresh |-> fresh,
                     conversation |-> conversation,
                     stream |-> stream, calls |-> run.calls, result |-> run.result]
         /\ uuidCount' = uuidCount + run.uuids
         /\ UNCHANGED <<alias, issued, running, preparer>>

FewPortfolioAnswers ==
    { HttpFailed, HttpAnswer(503, JsonDumps(None)), HttpAnswer(200, InvalidJson),
      HttpAnswer(200, JsonDumps(Dict([portfolio |->
          Portfolio(PyNum(105000), PyNum(1500), Performance(12), DaySummary(-250, -1),
                    PositionList(<< Position("AAA", 300, 2) >>))]))),
      HttpAnswer(200, JsonDumps(None)) }

PortfolioInputs ==
    (FunctionEvents \X FewPortfolioAnswers) \cup (PlainEvents \X PortfolioAnswers)

\* One function-call event to the portfolio adapter.
PortfolioRequest ==
    /\ last = Idle
    /\ \E in \in PortfolioInputs :
         LET event  == in[1]
             run    == PortfolioHandler(event, in[2])
             answer == IF run.calls = <<>> THEN NoAnswer ELSE in[2]
         IN
         /\ last' = [handler |-> "portfolio", event |-> event, answer |-> answer,
                     calls |-> run.calls, result |-> run.result]
         /\ UNCHANGED <<alias, uuidCount, issued, running, preparer>>

FewPermissionAnswers ==
    { HttpError("HTTPError"), HttpAnswer(404, NoData),
      HttpAnswer(200, JsonDumps(AgentList(<<"detailed-investment-agent">>))) }

SubscriptionInputs ==
    (FunctionEvents \X FewPermissionAnswers) \cup (PlainEvents \X PermissionAnswers)

\* One function-call event to the subscription adapter.
SubscriptionRequest ==
    /\ last = Idle
    /\ \E in \in SubscriptionInputs :
         LET event  == in[1]
             run    == SubscriptionHandler(event, in[2])
             answer == IF run.calls = <<>> THEN NoAnswer ELSE in[2]
         IN
         /\ last' = [handler |-> "subscription", event |-> event, answer |-> answer,
                     calls |-> run.calls, result |-> run.result]
         /\ UNCHANGED <<alias, uuidCount, issued, running, preparer>>

\* The invocation ends: its response has gone to the caller and nothing of
\* it is kept.
Reply ==
    /\ last # Idle
    /\ last' = Idle
    /\ UNCHANGED <<alias, uuidCount, issued, running, preparer>>

Next ==
    \/ GatewayRequest
    \/ RouterRequest
    \/ PortfolioRequest
    \/ SubscriptionRequest
    \/ Reply

Spec == Init /\ [][Next]_vars

-----------------------------------------------------------------------------
(* Concurrent invocations.  Each execution environment runs the handler on *)
(* its own event; the steps of the invocations interleave at the calls of  *)
(* the external services: the invoke_agent call, every chunk read from the *)
(* stream, the HTTP request and its answer.                                *)

ConcGatewayEvents ==
    { [t |-> "dict", body |-> JsonDumps(Dict([query |-> q, session_id |-> sid]))] :
        q \in { PyStr(""), PyStr("What is my balance?") },
        sid \in { Absent, PyStr("sess-1") } }

ConcStreams ==
    { [callExc |-> "ClientError: invoke failed", chunks |-> <<>>, failAt |-> -1],
      [callExc |-> "", chunks |-> << <<"h">> >>, failAt |-> 1],
      [callExc |-> "", chunks |-> << <<"h">>, <<"C3">> >>, failAt |-> -1] }
    \cup { [callExc |-> "", chunks |-> cs, failAt |-> -1] :
             cs \in SeqsUpTo({ <<"h">>, <<"C3", "A9">> }, MaxChunks) }

ConcSubscriptionEvents ==
    { FunctionEvent(PyStr(f), PyStr("InvestmentActions"),
                    ParamMap(Assign(EmptyMap, "user_id", PyStr("alice"))), Absent) :
        f \in { "check_subscription", "subscribe_to_service", "place_order" } }

\* completion = "" is a local variable of the handler: an invocation
\* accumulates the text in its own frame.
Buffer_shared(slot) == "a"

Buffer(slot) == slot

\* Another invocation is in the middle of its stream.
Overlaps(slot) ==
    \E other \in Slots \ { slot } :
        running[other].pc = "reading" /\ running[other].i > 1

\* The local variables of an invocation that has returned.
Done(handler, event, fresh, input, result, overlapped) ==
    [pc |-> "done", handler |-> handler, event |-> event, fresh |-> fresh,
     input |-> input, result |-> result, completion |-> <<>>, overlapped |-> overlapped]

\* app.py lines 14-37: the body is parsed and checked, and invoke_agent is
\* called.
StartGateway(slot) ==
    /\ running[slot].pc = "free"
    /\ uuidCount < MaxUuid
    /\ \E event \in ConcGatewayEvents :
         LET fresh == uuid4(uuidCount + 1)
             probe == GatewayTry(event, alias, fresh, NoStream)
         IN
         /\ uuidCount' = uuidCount + probe.uuids
         /\ IF probe.calls = <<>> THEN
                running' = [running EXCEPT ![slot] =
                    Done("gateway", event, fresh, NoStream,
                         IF probe.out.exc = "" THEN probe.out.val ELSE GatewayExcept(probe.out),
                         FALSE)]
            ELSE \E stream \in ConcStreams :
                IF stream.callExc # "" THEN
                    running' = [running EXCEPT ![slot] =
                        Done("gateway", event, fresh, stream,
                             GatewayExcept(InvokeAndRead(stream)), Overlaps(slot))]
                ELSE
                    running' = [running EXCEPT
                        ![slot] = [pc |-> "reading", handler |-> "gateway", event |-> event,
                                   fresh |-> fresh, stream |-> stream,
                                   session_id |-> probe.calls[1].sessionId,
                                   i |-> 1, completion |-> <<>>,
                                   overlapped |-> Overlaps(slot)],
                        ![Buffer(slot)].completion = <<>>]
    /\ UNCHANGED <<alias, issued, last, preparer>>

\* app.py lines 41-47: one turn of the chunk loop, or the return after it.
ReadChunk(slot) ==
    /\ running[slot].pc = "reading"
    /\ LET me         == running[slot]
           completion == running[Buffer(slot)].completion
           return(r)  == running' = [running EXCEPT ![slot] =
                            Done("gateway", me.event, me.fresh, me.stream, r,
                                 me.overlapped \/ Overlaps(slot))]
       IN
       IF me.stream.failAt = me.i - 1 THEN
           return(GatewayExcept(Raised("EventStreamError", "stream failed")))
       ELSE IF me.i > Len(me.stream.chunks) THEN
           return(HttpResponse(200, [response |-> completion, session_id |-> me.session_id]))
       ELSE LET piece == Decode(me.stream.chunks[me.i]) IN
            IF piece.exc # "" THEN return(GatewayExcept(piece))
            ELSE running' = [running EXCEPT
                    ![slot].i = me.i + 1,
                    ![slot].overlapped = me.overlapped \/ Overlaps(slot),
                    ![Buffer(slot)].completion = completion \o piece.val]
    /\ UNCHANGED <<alias, uuidCount, issued, last, preparer>>

\* subscription_handler.py: the event is taken apart and the request to the
\* permissions API is sent.
StartSubscription(slot) ==
    /\ running[slot].pc = "free"
    /\ \E event \in ConcSubscriptionEvents :
         LET probe == SubscriptionHandler(event, NoAnswer) IN
         running' = [running EXCEPT ![slot] =
             IF probe.calls = <<>>
             THEN Done("subscription", event, None, NoAnswer, probe.result, FALSE)
             ELSE [pc |-> "waiting", handler |-> "subscription", event |-> event,
                   completion |-> <<>>, overlapped |-> Overlaps(slot)]]
    /\ UNCHANGED <<alias, uuidCount, issued, last, preparer>>

\* The permissions API answers, and the handler returns.
ReceiveAnswer(slot) ==
    /\ running[slot].pc = "waiting"
    /\ \E answer \in FewPermissionAnswers :
         running' = [running EXCEPT ![slot] =
             Done("subscription", running[slot].event, None, answer,
                  SubscriptionHandler(running[slot].event, answer).result,
                  running[slot].overlapped \/ Overlaps(slot))]
    /\ UNCHANGED <<alias, uuidCount, issued, last, preparer>>

\* The response has gone to the caller; the environment is free again.
Release(slot) ==
    /\ running[slot].pc = "done"
    /\ running' = [running EXCEPT ![slot] = Free]
    /\ UNCHANGED <<alias, uuidCount, issued, last, preparer>>

ConcNext ==
    \E slot \in Slots :
        \/ StartGateway(slot)
        \/ ReadChunk(slot)
        \/ StartSubscription(slot)
        \/ ReceiveAnswer(slot)
        \/ Release(slot)

ConcSpec == Init /\ [][ConcNext]_vars

-----------------------------------------------------------------------------
(* The agent preparer, one step for every call it makes.                   *)

Entry_   == Work(preparer.event)[preparer.at].info
Others   == <<alias, uuidCount, issued, last, running>>

\* CloudFormation invokes the handler.
PreparerInvoke ==
    /\ preparer.pc = "idle"
    /\ \E event \in PreparerEvents : preparer' = PreparerHandler(event)
    /\ UNCHANGED Others

\* Lines 45-60: bedrock_agent.prepare_agent for the next agent.
PrepareAgent ==
    /\ preparer.pc = "agent"
    /\ LET agent_info == Entry_ IN
       IF agent_info.AgentId = Absent \/ agent_info.AgentName = Absent
       THEN preparer' = Respond(preparer, "FAILED", EmptyMap, <<"'AgentName'">>)
       ELSE \E outcome \in CallOutcomes :
            LET called == [preparer EXCEPT
                             !.calls = Append(@, [api |-> "prepare_agent",
                                                  id |-> agent_info.AgentId]),
                             !.waited = 0, !.observed = "", !.ended = ""]
            IN preparer' =
                 IF outcome = "ok" THEN [called EXCEPT !.pc = "get_agent"]
                 ELSE Recorded(called, <<"Agent_", agent_info.AgentName.s>>,
                               <<"Error: ", "prepare_agent failed">>)
    /\ UNCHANGED Others

\* Lines 98-117: one bedrock_agent.get_agent of the wait for an agent.
PollAgent ==
    /\ preparer.pc = "get_agent"
    /\ \E answer \in PollAnswers :
         LET agent_info == Entry_
             called == [preparer EXCEPT
                          !.calls = Append(@, [api |-> "get_agent",
                                               id |-> agent_info.AgentId])]
             step   == wait_for_agent_preparation(agent_info.AgentName.s,
                                                  preparer.waited, answer)
         IN preparer' = AfterPoll(called, <<"Agent_", agent_info.AgentName.s>>,
                                  step, answer)
    /\ UNCHANGED Others

\* Lines 64-83: bedrock_agent.prepare_agent_alias for the next alias.
PrepareAlias ==
    /\ preparer.pc = "alias"
    /\ LET alias_info == Entry_ IN
       IF alias_info.AgentId = Absent \/ alias_info.AliasId = Absent
          \/ alias_info.AliasName = Absent
       THEN preparer' = Respond(preparer, "FAILED", EmptyMap, <<"'AliasName'">>)
       ELSE \E outcome \in CallOutcomes :
            LET called == [preparer EXCEPT
                             !.calls = Append(@, [api |-> "prepare_agent_alias",
                                                  id |-> alias_info.AliasId]),
                             !.waited = 0, !.observed = "", !.ended = ""]
            IN preparer' =
                 IF outcome = "ok" THEN [called EXCEPT !.pc = "get_agent_alias"]
                 ELSE Recorded(called, <<"Alias_", alias_info.AliasName.s>>,
                               <<"Error: ", "prepare_agent_alias failed">>)
    /\ UNCHANGED Others

\* Lines 126-148: one bedrock_agent.get_agent_alias of the wait for an alias.
PollAlias ==
    /\ preparer.pc = "get_agent_alias"
    /\ \E answer \in PollAnswers :
         LET alias_info == Entry_
             called == [preparer EXCEPT
                          !.calls = Append(@, [api |-> "get_agent_alias",
                                               id |-> alias_info.AliasId])]
             step   == wait_for_alias_preparation(alias_info.AliasName.s,
                                                  preparer.waited, answer)
         IN preparer' = AfterPoll(called, <<"Alias_", alias_info.AliasName.s>>,
                                  step, answer)
    /\ UNCHANGED Others

\* send_response: the PUT succeeds or raises, and the handler returns.  For
\* an event without ResponseURL every send_response of the except clauses
\* (lines 89 and 30) raises like the first, and the handler raises.
SendResponse ==
    /\ preparer.pc = "respond"
    /\ \E put \in CallOutcomes :
         LET sending == send_response(preparer.event, preparer.pending.Status,
                                      preparer.pending.Data, preparer.pending.Reason, put)
         IN preparer' = [preparer EXCEPT !.pc = "done",
                                         !.responses = @ \o sending.sent,
                                         !.returned = sending.out]
    /\ UNCHANGED Others

\* The invocation is over.
PreparerReturn ==
    /\ preparer.pc = "done"
    /\ preparer' = PreparerIdle
    /\ UNCHANGED Others

PrepNext ==
    \/ PreparerInvoke
    \/ PrepareAgent
    \/ PollAgent
    \/ PrepareAlias
    \/ PollAlias
    \/ SendResponse
    \/ PreparerReturn

PrepSpec == Init /\ [][PrepNext]_vars

-----------------------------------------------------------------------------
(* What the recorded invocation received, stated on the inputs alone.      *)

IsGateway == last.handler = "gateway"

\* The body the Gateway received parses to a JSON object.
BodyIsObject ==
    /\ last.event.t = "dict"
    /\ \/ last.event.body.t = "absent"
       \/ last.event.body.t = "text" /\ last.event.body.json.t = "dict"

\* The members of that object ("{}" when the event has no body).
BodyMember(key) ==
    IF last.event.body.t = "absent" THEN Absent ELSE last.event.body.json.d[key]

HasQuery == BodyIsObject /\ Truthy(BodyMember("query"))

\* The specialist runtime answered and its stream ended with every chunk
\* being text of its own.
StreamCompletes(stream) ==
    /\ stream.callExc = ""
    /\ stream.failAt = -1
    /\ \A i \in 1 .. Len(stream.chunks) : Decode(stream.chunks[i]).exc = ""

GatewayPayload == last.result.body.json.d

\* The deployment still carries the placeholder in its alias identifier.
AliasUnfinished == \E i \in DOMAIN alias : alias[i] = "PLACEHOLDER"

NoDuplicates(ids) == \A i, j \in 1 .. Len(ids) : i # j => ids[i] # ids[j]

-----------------------------------------------------------------------------
(* Request Gateway.                                                        *)

\* C1: a Gateway request with a non-empty query, an alias identifier that is
\* no placeholder and a completing specialist invocation is answered with
\* HTTP 200 and with the session_id it supplied; when it supplied none, with
\* the freshly generated non-empty identifier, which no earlier call without
\* a session_id received.
C1_SessionIdOnSuccess ==
    /\ NoDuplicates(issued)
    /\ (IsGateway /\ HasQuery /\ ~AliasUnfinished /\ StreamCompletes(last.stream))
        => /\ ~last.result.raised
           /\ last.result.statusCode = 200
           /\ IF BodyMember("session_id") # Absent
              THEN GatewayPayload.session_id = BodyMember("session_id")
              ELSE /\ GatewayPayload.session_id = last.fresh
                   /\ last.fresh.t = "str" /\ last.fresh.s # ""
                   /\ issued # <<>> /\ issued[Len(issued)] = last.fresh

\* Two calls without a session_id were answered, the second one just now.
C1_Witness ==
    /\ IsGateway /\ HasQuery /\ StreamCompletes(last.stream)
    /\ BodyMember("session_id") = Absent
    /\ last.result.statusCode = 200
    /\ Len(issued) = 2

\* C2: a Gateway request whose parsed body has an empty or missing query is
\* answered with HTTP 400 and the error "Missing 'query' in request body",
\* whatever its session_id and the alias identifier, and without any call
\* to the specialist runtime.
C2_MissingQuery ==
    (IsGateway /\ BodyIsObject /\ ~Truthy(BodyMember("query")))
        => /\ ~last.result.raised
           /\ last.result.statusCode = 400
           /\ GatewayPayload = [error |-> <<"Missing 'query' in request body">>]
           /\ last.calls = <<>>

\* An empty query arrived with a session_id while the alias is a placeholder.
C2_Witness ==
    /\ IsGateway /\ BodyIsObject
    /\ BodyMember("query") = PyStr("")
    /\ BodyMember("session_id") # Absent
    /\ AliasUnfinished
    /\ last.result.statusCode = 400

\* C3: a body that is not valid structured data (text that is no JSON, a
\* null body, JSON that is no object) is answered with HTTP 400 and the
\* JSON-specific message, never with HTTP 500.
C3_InvalidBodyIs400 ==
    (IsGateway /\ last.event.t = "dict" /\ ~BodyIsObject)
        => /\ last.result.statusCode = 400
           /\ GatewayPayload = [error |-> <<"Invalid JSON in request body">>]

\* C4: with a placeholder alias identifier and a non-empty query the Gateway
\* answers HTTP 500 and has issued no call to the specialist runtime.
C4_PlaceholderBeforeInvoke ==
    (IsGateway /\ HasQuery /\ AliasUnfinished)
        => /\ ~last.result.raised
           /\ last.result.statusCode = 500
           /\ last.calls = <<>>

\* The placeholder is part of a longer alias value.
C4_Witness ==
    /\ IsGateway /\ HasQuery
    /\ alias = <<"ALIAS_", "PLACEHOLDER", "_ID">>
    /\ last.result.statusCode = 500

\* The message of the exception a failing invocation raises.
FailureMessages(stream) ==
    IF stream.callExc # "" THEN { stream.callExc }
    ELSE { "stream failed", "'utf-8' codec can't decode byte" }

\* C5: the Gateway never raises: for every event and every failure of the
\* specialist invocation or of chunk decoding it returns a response with
\* statusCode 200, 400 or 500 and a JSON object as body, and a downstream
\* failure gives HTTP 500 with the exception message in the error text.
C5_AlwaysStructured ==
    IsGateway
        => /\ ~last.result.raised
           /\ last.result.statusCode \in { 200, 400, 500 }
           /\ last.result.body.t = "text" /\ last.result.body.json.t = "dict"
           /\ (last.calls # <<>> /\ ~StreamCompletes(last.stream))
                => /\ last.result.statusCode = 500
                   /\ \E m \in FailureMessages(last.stream) :
                        GatewayPayload = [error |-> <<"An internal error occurred: ", m>>]

\* A chunk that is no text of its own made the decoding fail.
C5_Witness ==
    /\ IsGateway /\ last.calls # <<>>
    /\ last.stream.callExc = "" /\ last.stream.failAt = -1
    /\ ~StreamCompletes(last.stream)
    /\ last.result.statusCode = 500

-----------------------------------------------------------------------------
(* Specialist invocation: the chunk stream.                                *)

IsRouter == last.handler = "router"

\* The call was answered, and then the stream failed or a chunk was no text.
StreamBreaks(stream) == stream.callExc = "" /\ ~StreamCompletes(stream)

\* The pieces a completion is made of.
TextPieces == { "h", "e'" }

RouterFailure == "Error invoking detailed investment agent: "

RouterFailed ==
    Len(last.result.body) = 2 /\ last.result.body[1] = RouterFailure

\* C6: when the chunk stream fails after any number of chunks, the Gateway
\* answers HTTP 500 and the router adapter an "Error invoking ..." body,
\* made of the exception message alone and of none of the text accumulated
\* so far; a success is returned only when the stream was read to its end.
C6_NoPartialResult ==
    /\ (IsGateway /\ last.calls # <<>> /\ StreamBreaks(last.stream))
         => /\ last.result.statusCode = 500
            /\ \E m \in FailureMessages(last.stream) :
                 GatewayPayload = [error |-> <<"An internal error occurred: ", m>>]
            /\ \A i \in DOMAIN GatewayPayload.error : GatewayPayload.error[i] \notin TextPieces
    /\ (IsGateway /\ last.result.statusCode = 200)
         => last.calls # <<>> /\ last.stream.callExc = "" /\ last.stream.failAt = -1
    /\ (IsRouter /\ last.calls # <<>> /\ StreamBreaks(last.stream))
         => /\ \E m \in FailureMessages(last.stream) :
                 last.result.body = <<RouterFailure, m>>
            /\ \A i \in DOMAIN last.result.body : last.result.body[i] \notin TextPieces
    /\ (IsRouter /\ last.calls # <<>> /\ ~RouterFailed)
         => last.stream.callExc = "" /\ last.stream.failAt = -1

\* The stream of the router failed after one chunk of text had been read.
C6_Witness ==
    /\ IsRouter /\ last.calls # <<>>
    /\ last.stream.failAt = 1 /\ last.stream.chunks[1] = <<"h">>
    /\ RouterFailed

\* C7: for every chunk sequence delivered to its end, the text returned is
\* the text of all the bytes in delivery order, wherever the chunk boundaries
\* fall.
C7_ExactConcatenation ==
    LET whole == Decode(Flatten(last.stream.chunks))
        delivered == /\ last.calls # <<>>
                     /\ last.stream.callExc = "" /\ last.stream.failAt = -1
                     /\ whole.exc = ""
    IN
    /\ (IsGateway /\ delivered)
         => last.result.statusCode = 200 /\ GatewayPayload.response = whole.val
    /\ (IsRouter /\ delivered)
         => last.result.body = whole.val

-----------------------------------------------------------------------------
(* Function-Call Adapter.                                                  *)

IsAdapter == last.handler \in { "router", "portfolio", "subscription" }

\* The event after unwrapping, and the function name it carries.
Received     == UnwrapEvent(last.event)
ReceivedName == Get(Received.d, "function", PyStr(""))

Registered ==
    CASE last.handler = "router"       -> { RouterFunction }
      [] last.handler = "portfolio"    -> { PortfolioFunction }
      [] last.handler = "subscription" -> { CheckFunction, SubscribeFunction }

\* A parameters list holds a {name, value} entry whose name is a list.
UnhashableName ==
    /\ Received.d.parameters.t = "list"
    /\ \E i \in 1 .. Len(Received.d.parameters.items) :
         LET param == Received.d.parameters.items[i] IN
         /\ param.t = "dict"
         /\ param.d.name = Unhashable /\ param.d.value # Absent

\* No function name, but an inputText.
DirectShape == ~Truthy(ReceivedName) /\ Received.d.inputText # Absent

\* C8 as stated: every event whose function name is not registered gets the
\* body "Error: Unknown function: <name>", and the handler does not raise.
C8_UnknownFunction ==
    (IsAdapter /\ Received.t = "dict" /\ ReceivedName \notin Registered)
        => /\ ~last.result.raised
           /\ last.result.body = <<"Error: Unknown function: ", ReceivedName.s>>

\* C8 amended: the same for every event that is a mapping whose parameters
\* list holds no entry with an unhashable name and that, for the router, is
\* no direct invocation (no function name but an inputText); and no adapter
\* raises, whatever the event.
C8_UnknownFunctionAmended ==
    /\ IsAdapter => ~last.result.raised
    /\ (/\ IsAdapter /\ Received.t = "dict" /\ ReceivedName \notin Registered
        /\ ~UnhashableName
        /\ ~(IsRouter /\ DirectShape))
        => last.result.body = <<"Error: Unknown function: ", ReceivedName.s>>

\* The router received an unregistered name together with an inputText.
C8_Witness ==
    /\ IsRouter /\ Received.t = "dict"
    /\ ReceivedName = PyStr("place_order")
    /\ Received.d.inputText # Absent
    /\ last.result.body = <<"Error: Unknown function: ", "place_order">>

\* The entries of a flat mapping, as a parameters list.
RECURSIVE AsEntries(_)
AsEntries(map) ==
    IF DOMAIN map = {} THEN <<>>
    ELSE LET name == CHOOSE k \in DOMAIN map : TRUE IN
         << Entry(PyStr(name), map[name]) >>
         \o AsEntries([k \in DOMAIN map \ { name } |-> map[k]])

\* C9: in each adapter a flat name-to-value mapping and the list of
\* {name, value} entries of the same pairs give the same parameter mapping.
C9_SameMapping ==
    (IsAdapter /\ Received.t = "dict" /\ Received.d.parameters.t = "dict")
        => LET pairs == Received.d.parameters.pairs IN
           IF last.handler = "subscription"
           THEN ListOrMapParameters(ParamMap(pairs))
                    = ListOrMapParameters(ParamList(AsEntries(pairs)))
           ELSE ListOnlyParameters(ParamMap(pairs))
                    = ListOnlyParameters(ParamList(AsEntries(pairs)))

ErrorDoing ==
    CASE last.handler = "router"       -> RouterFailure
      [] last.handler = "portfolio"    -> "Error fetching portfolio balance: "
      [] last.handler = "subscription" -> "Error in subscription handler: "

IsErrorDoing == Len(last.result.body) = 2 /\ last.result.body[1] = ErrorDoing

\* The external call of the invocation failed.
ExternalFailure ==
    /\ last.calls # <<>>
    /\ IF IsRouter THEN ~StreamCompletes(last.stream) ELSE last.answer.exc # ""

\* C10 as stated: no adapter raises, and every exception, a failure of the
\* external specialist or HTTP call included, gives the body
\* "Error <doing X>: <message>".
C10_EveryExceptionIsErrorDoing ==
    IsAdapter
        => /\ ~last.result.raised
           /\ (Received.t # "dict" \/ UnhashableName \/ ExternalFailure) => IsErrorDoing

\* C10 amended: no adapter raises.  An exception raised in the handler
\* itself (an event that is no mapping, an unhashable parameter name, a
\* failing specialist call or stream in the router, a snapshot that is no
\* mapping in the portfolio handler) gives "Error <doing X>: <message>"; a
\* failing HTTP call is absorbed below: the portfolio adapter answers with
\* its apology and the subscription adapter with "Error: <error text>".
C10_BoundaryExceptions ==
    IsAdapter
        => /\ ~last.result.raised
           /\ (Received.t # "dict" \/ UnhashableName) => IsErrorDoing
           /\ (IsRouter /\ ExternalFailure)
                => \E m \in FailureMessages(last.stream) :
                     last.result.body = <<RouterFailure, m>>
           /\ (last.handler = "portfolio" /\ last.calls # <<>>
                 /\ last.answer.status = 200 /\ last.answer.data.t = "text"
                 /\ last.answer.data.json.t = "list")
                => IsErrorDoing
           /\ (last.handler = "portfolio" /\ ExternalFailure)
                => last.result.body = Apology
           /\ (last.handler = "subscription" /\ ExternalFailure)
                => /\ Len(last.result.body) = 2
                   /\ last.result.body[1] = "Error: "
                   /\ last.result.body[2] \in
                        { "Failed to check subscription status", "Failed to subscribe to service",
                          "Internal error while checking subscription",
                          "Internal error while subscribing" }

\* The HTTP call of the portfolio adapter failed.
C10_Witness ==
    /\ last.handler = "portfolio" /\ ExternalFailure
    /\ last.result.body = Apology

-----------------------------------------------------------------------------
(* Router adapter: the required parameter.                                 *)

\* The parameters list of the received event gives a mapping that has no
\* "query" or an empty one.
NoQuery ==
    LET listed == ListOnlyParameters(Received.d.parameters) IN
    /\ listed.exc = ""
    /\ MapGet(listed.val, "query", Absent) \in { Absent, PyStr("") }

MissingQuery == <<"Error: Missing 'query' parameter">>

-----------------------------------------------------------------------------
(* The session identifier across the layers.                               *)

\* The session identifier the Gateway works with: the one its request
\* supplied, else the one it generated.
GatewaySession ==
    IF BodyMember("session_id") # Absent THEN BodyMember("session_id") ELSE last.fresh

\* C12: every specialist invocation uses the session identifier of the
\* conversation it serves: the Gateway invokes with the identifier it
\* received or generated and returns that one, and the router adapter
\* invokes the downstream specialist with the identifier of the conversation
\* in whose course it was called.
C12_SessionCarried ==
    /\ (IsGateway /\ last.calls # <<>>)
         => /\ last.calls[1].sessionId = GatewaySession
            /\ last.result.statusCode = 200
                 => GatewayPayload.session_id = last.calls[1].sessionId
    /\ (IsRouter /\ last.calls # <<>>)
         => last.calls[1].sessionId = last.conversation

-----------------------------------------------------------------------------
(* Portfolio adapter.                                                      *)

IsPortfolio == last.handler = "portfolio"

\* The snapshot the adapter fetched (None when the fetch failed).
Fetched == fetch_portfolio_balance(last.answer)

\* The adapter fetched a snapshot and formatted it without an exception.
Narrated ==
    /\ IsPortfolio /\ last.calls # <<>>
    /\ Fetched # None
    /\ NarrativeTry(Fetched).exc = ""

\* The members of the fetched portfolio ({} when the snapshot has none).
FetchedPortfolio == Get(Fetched.d, "portfolio", Dict(NoMembers)).d

\* The body holds the line.
BodyHas(line) == \E i \in DOMAIN last.result.body : last.result.body[i] = line

Opportunity == "**Investment Opportunity:**"

Diversification ==
    { "Consider:",
      "* Dollar-cost averaging into your existing holdings",
      "* Rebalancing your portfolio to maintain your target allocation",
      "* Investing in diversified index funds if you're looking for broad market exposure" }

ShorterNote ==
    { "While this amount is relatively small, every dollar invested has the potential to grow over time. ",
      "Consider adding it to your regular investment positions." }

\* C13: a narrative holds the diversification suggestions iff the cash
\* balance is above 1000, the shorter note iff it is above 0 and at most
\* 1000, and an investment-opportunity paragraph iff it is above 0 (a
\* snapshot without cashBalance has the balance 0).
C13_CashPolicy ==
    Narrated
        => LET cash == Get(FetchedPortfolio, "cashBalance", PyNum(0)).n IN
           /\ \A line \in Diversification : BodyHas(line) <=> cash > 1000
           /\ \A line \in ShorterNote : BodyHas(line) <=> (0 < cash /\ cash <= 1000)
           /\ BodyHas(Opportunity) <=> cash > 0

\* A cash balance of exactly 1000 got the shorter note.
C13_Witness ==
    /\ Narrated
    /\ FetchedPortfolio.cashBalance = PyNum(1000)
    /\ \A line \in ShorterNote : BodyHas(line)

\* The lines of the body, and those that follow the top-holdings heading.
NotBreak(piece) == piece # "\n"
BodyLines == SelectSeq(last.result.body, NotBreak)

RankedLines ==
    LET at == CHOOSE i \in DOMAIN BodyLines : BodyLines[i] = "**Top Holdings:**" IN
    SubSeq(BodyLines, at + 1, Len(BodyLines))

\* The positions of the fetched portfolio.
FetchedPositions == Get(FetchedPortfolio, "positions", PositionList(<<>>)).items

\* Position a comes before position b in the ranking: it is worth more, or
\* as much and it stands earlier in the sequence.
Outranks(positions, a, b) ==
    LET va == Get(positions[a].d, "totalValue", PyNum(0)).n
        vb == Get(positions[b].d, "totalValue", PyNum(0)).n
    IN va > vb \/ (va = vb /\ a < b)

Min(a, b) == IF a < b THEN a ELSE b

\* C14: for a non-empty positions sequence the narrative ends with the
\* heading and min(3, n) ranked lines; line j shows rank j and the position
\* that j - 1 positions outrank, where a position outranks another when its
\* totalValue is larger, or equal and it comes earlier in the sequence.
C14_TopHoldings ==
    (Narrated /\ FetchedPositions # <<>>)
        => LET positions == FetchedPositions
               n == Len(positions)
           IN
           /\ BodyHas("**Top Holdings:**")
           /\ Len(RankedLines) = Min(3, n)
           /\ \A j \in 1 .. Len(RankedLines) :
                \E a \in 1 .. n :
                    /\ Cardinality({ b \in 1 .. n : Outranks(positions, b, a) }) = j - 1
                    /\ RankedLines[j] = HoldingLine(j, positions[a])

\* Four positions, two of them worth 700, the later one first in the list.
C14_Witness ==
    /\ Narrated
    /\ FetchedPositions = << Position("DDD", 700, 0), Position("AAA", 300, 2),
                             Position("CCC", 700, 5), Position("BBB", 900, -1) >>
    /\ RankedLines = << "1. BBB - $900.00 (-1.00%)", "2. DDD - $700.00 (+0.00%)",
                        "3. CCC - $700.00 (+5.00%)" >>

\* The portfolio API was called, and the call failed or was answered with a
\* status other than 200.
UpstreamFailed ==
    /\ IsPortfolio /\ last.calls # <<>>
    /\ (last.answer.exc # "" \/ last.answer.status # 200)

\* C15: when the call of the portfolio API fails or is answered with a
\* status other than 200, whatever the body of the answer, the adapter does
\* not raise and returns the apology as its body.
C15_ApologyOnFailure ==
    UpstreamFailed
        => /\ ~last.result.raised
           /\ last.result.body = Apology
           /\ last.result.function = PortfolioFunction

\* The API answered 404 with a body that holds a complete snapshot.
C15_Witness ==
    /\ UpstreamFailed
    /\ last.answer.status = 404
    /\ last.answer.data.json.t = "dict"
    /\ last.result.body = Apology

\* The adapter fetched a snapshot and its formatting raised an exception.
FormattingFailed ==
    /\ IsPortfolio /\ last.calls # <<>>
    /\ Fetched # None
    /\ NarrativeTry(Fetched).exc # ""

\* The one-line summary of a total value.
SummaryOf(total) ==
    << "I was able to fetch your portfolio data, but encountered an issue formatting the response. Your total portfolio value is $"
       \o Money(total) \o "." >>

\* C16: whenever formatting a fetched snapshot raises an exception, whatever
\* its cause, the body of the adapter is the one-line summary of a total
\* value.
C16_FormattingFallback ==
    FormattingFailed
        => /\ ~last.result.raised
           /\ \E total \in { 0, 105000 } : last.result.body = SummaryOf(total)

-----------------------------------------------------------------------------
(* Subscription adapter.                                                   *)

IsSubscription == last.handler = "subscription"

\* The permissions API was called for the named operation and answered.
Answered(operation) ==
    /\ IsSubscription /\ last.calls # <<>>
    /\ ReceivedName = operation
    /\ last.answer.exc = ""

\* The answer is HTTP 200 with a body that is JSON.
ParsedOk(operation) ==
    /\ Answered(operation)
    /\ last.answer.status = 200
    /\ last.answer.data.t = "text" /\ last.answer.data.json.t # "invalid"

UpstreamBody == last.answer.data.json

\* The user the operation is about.
UserId == MapGet(ListOrMapParameters(Received.d.parameters).val, "user_id", PyStr("quang"))

\* The collection the claim names for a body: data.permitted_agents of an
\* object, the body itself when it is a list; Absent when there is none.
ClaimedAgents(body) ==
    IF body.t = "list" THEN body
    ELSE IF body.t = "dict" /\ body.d.data.t = "dict" THEN body.d.data.d.permitted_agents
    ELSE Absent

\* The body of the adapter for a successful check with these agents.
CheckSuccess(agents) ==
    << JsonText(Dict([has_subscription |-> PyBool(agents.items # <<>>),
                      permitted_agents |-> agents,
                      user_id |-> UserId,
                      raw_response |-> UpstreamBody])) >>

\* C17 as stated: every HTTP 200 body that is an object or a list gives a
\* success result, whose permitted agents are data.permitted_agents of the
\* object or the list itself (none when the object names none), with
\* has_subscription true iff they are not empty.
C17_BothShapes ==
    (ParsedOk(CheckFunction) /\ UpstreamBody.t \in { "dict", "list" })
        => LET claimed == ClaimedAgents(UpstreamBody) IN
           last.result.body =
               CheckSuccess(IF claimed.t = "list" THEN claimed ELSE AgentList(<<>>))

\* C17 amended: the same for a list, and for an object whose data member is
\* missing or an object whose permitted_agents member is missing or a
\* list; a body that is JSON but neither an object nor a list gives a
\* success result with no agents; an object whose data or permitted_agents
\* is null gives the failure "Internal error while checking subscription".
C17_BothShapesAmended ==
    ParsedOk(CheckFunction)
        => LET body    == UpstreamBody
               claimed == ClaimedAgents(body)
               broken  == /\ body.t = "dict"
                          /\ \/ body.d.data.t \notin { "absent", "dict" }
                             \/ /\ body.d.data.t = "dict"
                                /\ body.d.data.d.permitted_agents.t \notin { "absent", "list" }
           IN
           IF broken
           THEN last.result.body = << "Error: ", "Internal error while checking subscription" >>
           ELSE last.result.body =
                    CheckSuccess(IF claimed.t = "list" THEN claimed ELSE AgentList(<<>>))

\* The body is an object with an empty permitted_agents list, and the check
\* reports no subscription.
C17_Witness ==
    /\ ParsedOk(CheckFunction)
    /\ UpstreamBody = Dict([data |-> Dict([permitted_agents |-> AgentList(<<>>)])])
    /\ last.result.body = CheckSuccess(AgentList(<<>>))

Operations == { CheckFunction, SubscribeFunction }

\* The answer is HTTP 200 with a body that is text (or empty) and no JSON.
Malformed ==
    /\ last.answer.status = 200
    /\ last.answer.data.t # "bytes" /\ last.answer.data.json.t = "invalid"

StatusError == "API request failed with status: " \o ToString(last.answer.status)
JsonError == "Invalid JSON response from API"

\* C18 as stated: in both operations an answer with a status other than 200
\* gives the body "Error: " with the HTTP-status text, and an HTTP 200 answer
\* whose body is text that is no JSON gives "Error: " with the JSON-parse
\* text.
C18_DistinctDiagnostics ==
    \A operation \in Operations :
        Answered(operation)
            => /\ ~last.result.raised
               /\ last.answer.status # 200 => last.result.body = << "Error: ", StatusError >>
               /\ Malformed => last.result.body = << "Error: ", JsonError >>

\* subscribe_to_service issued its POST.
Subscribing ==
    /\ IsSubscription /\ last.calls # <<>>
    /\ ReceivedName = SubscribeFunction

\* C19 as stated: subscribe_to_service reports success exactly when its POST
\* was answered with HTTP 200, whatever the body of the answer.
C19_SuccessIffOk ==
    Subscribing
        => (last.result.body = Congratulation
              <=> (last.answer.exc = "" /\ last.answer.status = 200))

\* C19 amended: subscribe_to_service reports success exactly when its POST
\* was answered with HTTP 200 and a body that is JSON, whatever that JSON
\* value is; every other answer gives a body that starts with "Error: ".
C19_SuccessIffOkAndJson ==
    Subscribing
        => /\ last.result.body = Congratulation <=> ParsedOk(SubscribeFunction)
           /\ ~ParsedOk(SubscribeFunction) => last.result.body[1] = "Error: "

\* The POST was answered 200 with a JSON value that is no object.
C19_Witness ==
    /\ Subscribing /\ ParsedOk(SubscribeFunction)
    /\ UpstreamBody = PyStr("ok")
    /\ last.result.body = Congratulation

-----------------------------------------------------------------------------
(* Concurrent requests.                                                    *)

\* What the handler returns for the event and the external answers of an
\* invocation when it runs alone.
AloneResult(r) ==
    IF r.handler = "gateway"
    THEN GatewayHandler(r.event, alias, r.fresh, r.input).result
    ELSE SubscriptionHandler(r.event, r.input).result

\* C20: whatever the interleaving of concurrent invocations, the result of
\* every invocation is the one the handler gives, run alone, for the
\* invocation's own event and the answers to its own external calls.
C20_IsolatedInvocations ==
    \A slot \in Slots :
        running[slot].pc = "done" => running[slot].result = AloneResult(running[slot])

\* A Gateway invocation whose chunk loop interleaved with that of another
\* invocation returned HTTP 200 with the text of its own two chunks.
C20_Witness ==
    \E slot \in Slots :
        /\ running[slot].pc = "done" /\ running[slot].handler = "gateway"
        /\ running[slot].overlapped
        /\ running[slot].result.statusCode = 200
        /\ running[slot].result.body.json.d.response = << "h", "e'" >>
        /\ \E other \in Slots \ { slot } :
             running[other].pc = "reading" /\ running[other].completion = << "e'" >>

-----------------------------------------------------------------------------
(* Function-Call Adapter: the shapes of the event.                         *)

\* What the handler of the recorded invocation returns for another event and
\* the same external answers.
Rerun(event) ==
    CASE last.handler = "router"       -> RouterHandler(event, last.fresh, last.stream).result
      [] last.handler = "portfolio"    -> PortfolioHandler(event, last.answer).result
      [] last.handler = "subscription" -> SubscriptionHandler(event, last.answer).result

\* The received event with another parameters field.
WithParameters(ps) == Dict([Received.d EXCEPT !.parameters = ps])

\* An entry of a parameters list that is a {name, value} object.
IsNameValue(param) == param.t = "dict" /\ param.d.name # Absent /\ param.d.value # Absent

\* The handler failed before it issued any call.
FailedEarly == last.calls = <<>> /\ IsErrorDoing

-----------------------------------------------------------------------------
(* Function-Call Adapter: the result.                                      *)

\* The actionGroup and the function name of the received event ("" when it
\* has none or is no mapping).
ReceivedGroup ==
    IF Received.t = "dict" THEN Get(Received.d, "actionGroup", PyStr("")) ELSE PyStr("")
ReceivedFunction ==
    IF Received.t = "dict" THEN ReceivedName ELSE PyStr("")

\* The result is returned, with messageVersion "1.0" and a body of text.
WellShaped ==
    /\ ~last.result.raised
    /\ last.result.messageVersion = "1.0"
    /\ \A i \in DOMAIN last.result.body : last.result.body[i] \in STRING

-----------------------------------------------------------------------------
(* Function-Call Adapter: the external calls of an invocation.             *)

\* The function the adapter serves and, for the router, the query it reads:
\* the inputText of a direct invocation, else the "query" parameter.
ServedName == IF IsRouter /\ DirectShape THEN RouterFunction ELSE ReceivedName
ServedQuery ==
    IF DirectShape THEN Received.d.inputText
    ELSE MapGet(ListOnlyParameters(Received.d.parameters).val, "query", PyStr(""))

\* The adapter returned the unknown-function or the missing-parameter result.
Rejected ==
    \/ Len(last.result.body) = 2 /\ last.result.body[1] = "Error: Unknown function: "
    \/ last.result.body = MissingQuery

\* The event names a registered function, with the query the router needs.
Accepted ==
    /\ Received.t = "dict" /\ ~UnhashableName
    /\ ServedName \in Registered
    /\ IsRouter => Truthy(ServedQuery)

\* C24: an adapter that returns the unknown-function result or the
\* missing-parameter result has issued no external call in that invocation,
\* and an accepted call issues exactly one external call.
C24_OneCallWhenAccepted ==
    IsAdapter
        => /\ Rejected => last.calls = <<>>
           /\ Accepted => Len(last.calls) = 1 /\ ~Rejected

\* The subscription adapter issued its one POST for an accepted call.
C24_Witness ==
    /\ IsSubscription /\ Accepted
    /\ ReceivedName = SubscribeFunction
    /\ Len(last.calls) = 1 /\ last.calls[1].api = "POST permissions"

-----------------------------------------------------------------------------
(* Agent preparer: the wait loops.                                         *)

IsPolling == preparer.pc \in { "get_agent", "get_agent_alias" }

\* An outcome recorded in `results` says that the preparation failed.
FailureRecorded ==
    \E key \in DOMAIN preparer.results :
        LET text == preparer.results[key] IN text[Len(text)] = " preparation failed"

\* C25: once a poll of a wait has seen the status FAILED the wait polls no
\* more and ends with the exception saying that the preparation failed; a
\* wait returns only after a poll that saw PREPARED, and otherwise ends by
\* raising when the maximum wait time has elapsed.
C25_WaitEnds ==
    /\ preparer.observed = "FAILED" => ~IsPolling /\ FailureRecorded
    /\ preparer.ended = "returned" => preparer.observed = "PREPARED"
    /\ preparer.ended = "timeout" => preparer.waited >= MaxWaitPolls

-----------------------------------------------------------------------------
(* Agent preparer: agents before aliases.                                  *)

Requested(types) == preparer.event.RequestType \in { PyStr(rt) : rt \in types }

\* Every agent the request lists has an outcome in `results`.
AgentsRecorded ==
    LET agents == preparer.event.ResourceProperties.Agents IN
    \A k \in DOMAIN agents : <<"Agent_", agents[k].AgentName.s>> \in DOMAIN preparer.results

\* C26: in a Create or Update request, when prepare_agent_alias is called
\* every listed agent has a recorded outcome, and no call for an agent
\* (prepare_agent, get_agent) follows a call for an alias.
C26_AgentsBeforeAliases ==
    Requested({ "Create", "Update" })
        => \A i \in DOMAIN preparer.calls :
             preparer.calls[i].api = "prepare_agent_alias"
                 => /\ AgentsRecorded
                    /\ \A j \in DOMAIN preparer.calls :
                         j > i => preparer.calls[j].api \notin { "prepare_agent", "get_agent" }

\* An alias is being prepared after one of two agents was prepared and the
\* other ended in an error.
C26_Witness ==
    /\ Requested({ "Create", "Update" })
    /\ Len(preparer.event.ResourceProperties.Agents) = 2
    /\ \E i \in DOMAIN preparer.calls : preparer.calls[i].api = "prepare_agent_alias"
    /\ MapGet(preparer.results, <<"Agent_", "agent-1">>, <<>>) = <<"Prepared">>
    /\ MapGet(preparer.results, <<"Agent_", "agent-2">>, <<"Prepared">>) # <<"Prepared">>

-----------------------------------------------------------------------------
(* Agent preparer: the response to CloudFormation.                         *)

\* The event has its ResponseURL and the handler is over.
WellFormed == preparer.event.ResponseURL # Absent
Finished   == preparer.pc = "done"

\* C27: an invocation with a well-formed event PUTs exactly one response to
\* the event's ResponseURL, whatever the RequestType and whatever happened
\* to the agents and aliases; a Delete makes no Bedrock call and reports
\* SUCCESS, and a RequestType other than Create, Update and Delete reports
\* FAILED.
C27_OneResponse ==
    WellFormed
        => /\ Len(preparer.responses) <= 1
           /\ Requested({ "Delete" }) => preparer.calls = <<>>
           /\ Finished
                => /\ Len(preparer.responses) = 1
                   /\ preparer.responses[1].url = preparer.event.ResponseURL
                   /\ Requested({ "Delete" }) => preparer.responses[1].Status = "SUCCESS"
                   /\ ~Requested({ "Create", "Update", "Delete" })
                        => preparer.responses[1].Status = "FAILED"

\* A Create request whose agent ended in an error and whose PUT raised has
\* sent its one response.
C27_Witness ==
    /\ WellFormed /\ Finished /\ Requested({ "Create" })
    /\ \E key \in DOMAIN preparer.results : preparer.results[key][1] = "Error: "
    /\ preparer.returned = Returned(500)
    /\ Len(preparer.responses) = 1 /\ preparer.responses[1].Status = "SUCCESS"

====
